---- MODULE Spec2Model ----
(***************************************************************************)
(* A model of tmpl's configuration resolution: the path specification     *)
(* expander (utils.parse_file_paths), the deep merge                       *)
(* (utils.merge_yaml_data) and the recursive configuration loader          *)
(* (config.parse).                                                         *)
(*                                                                         *)
(* Strings are sequences of one-character strings, so that the string      *)
(* operations of the source (split, replace, regular expressions, int and  *)
(* str) are computed character by character.                               *)
(***************************************************************************)
EXTENDS Integers, Sequences, FiniteSets, TLC

(***************************************************************************)
(* State                                                                   *)
(***************************************************************************)

\* a call of utils.parse_file_paths
VARIABLES
    path_spec,     \* the path specification
    exp_fs,        \* the files glob sees
    exp_result,    \* what the call returned, or the exception it raised
    exp_pc         \* "ready", "done", "off"

exp_vars == <<path_spec, exp_fs, exp_result, exp_pc>>

\* calls of utils.merge_yaml_data
VARIABLES
    val1, val2, val3,   \* three YAML values
    merged12, merged23,    \* merge(val1, val2), merge(val2, val3)
    mergedL, mergedR,      \* merge(merged12, val3), merge(val1, merged23)
    mrg_pc                 \* "ready", "paired", "done", "off"

mrg_vars == <<val1, val2, val3, merged12, merged23, mergedL, mergedR, mrg_pc>>

\* a run of config.parse, then config.get_lib_paths
VARIABLES
    cfg_fs,        \* the configuration files (absolute paths)
    cfg_docs,      \* what yaml.safe_load returns for each of them
    cfg_root,      \* args.template_conf
    template_dir,  \* utils.TEMPLATE_DIR
    cfg_stack,     \* the calls of parse in progress, the innermost last
    cfg_ret,       \* the value the last finished call returned
    cfg_pc,        \* "running", "done", "failed", "libs", "libfail", "off"
    cfg_out,       \* conf: what parse(args.template_conf) returned
    cfg_err,       \* the exception that ended the run
    lib_paths,     \* what get_lib_paths(conf) returned
    cfg_log        \* the files parse has read, in order, each with the depth
                   \* of its call ('Reading template configuration file ...')

cfg_vars == <<cfg_fs, cfg_docs, cfg_root, template_dir, cfg_stack, cfg_ret,
              cfg_pc, cfg_out, cfg_err, lib_paths, cfg_log>>

\* a call of config.validate
VARIABLES
    vld_conf,      \* conf
    vld_before,    \* conf as it was when validate was called
    vld_result,    \* whether validate returned, or the exception it raised
    vld_pc         \* "ready", "done", "off"

vld_vars == <<vld_conf, vld_before, vld_result, vld_pc>>

\* a run of config.compute_mapping, then translate_templates
VARIABLES
    map_fs,        \* the files on disk (absolute paths)
    map_conf,      \* conf, the shared configuration document
    map_before,    \* conf as it was when compute_mapping was called
    map_tdir,      \* utils.TEMPLATE_DIR
    output_dir,    \* args.output
    working_dir,   \* args.working_directory
    map_i,         \* how many entries of conf['files'] the loop has handled
    mapping,       \* the list compute_mapping builds and returns
    map_owner,     \* for each element of mapping, the index of its FileSpec
    map_lnk,       \* the locals spec_full_lnk and spec_rel_lnk, once assigned
    map_pc,        \* "mapping", "translating", "translated", "failed", "off"
    map_err,       \* the exception that ended the run
    tt_i,          \* translate_templates: the index of `spec` in conf['files']
    tt_todo,       \* the elements of spec_maps still to do (indices of mapping)
    tt_log         \* the templates rendered and files copied so far

map_vars == <<map_fs, map_conf, map_before, map_tdir, output_dir, working_dir,
              map_i, mapping, map_owner, map_lnk, map_pc, map_err,
              tt_i, tt_todo, tt_log>>

\* a call of one of the template functions of jfuncs.py
VARIABLES
    jf_args,       \* the arguments of the call
    jf_fn,         \* the function called
    jf_result,     \* what the call returned
    jf_pc          \* "ready", "returned", "off"

jf_vars == <<jf_args, jf_fn, jf_result, jf_pc>>

\* a run of validate_environment
VARIABLES
    env_fs,        \* the file system: its files and its directories
    env_args,      \* the parsed command line
    env_denied,    \* whether the system refuses to delete or to create
    env_before,    \* the file system and the command line before the call
    env_ret,       \* the template directory the call returned
    env_ec,        \* the exit status of a bail
    env_pc         \* "ready", "returned", "exited", "off"

env_vars == <<env_fs, env_args, env_denied, env_before, env_ret, env_ec, env_pc>>

\* a run of main
VARIABLES
    run_args,      \* the parsed command line
    run_specs,     \* conf['files']
    run_mapping,   \* the mapping compute_mapping returns
    run_isdir,     \* whether the output directory exists
    run_nodes,     \* what stands at the link locations of the output tree
    run_before,    \* run_isdir and run_nodes when the run began
    run_i,         \* the position of the loop that is running
    run_todo,      \* the spec_maps translate_templates goes through
    run_log,       \* the effects of the run, in order
    run_done,      \* the stages that have completed, in order
    run_ec,        \* the exit status
    run_failed,    \* the class of the failure that ended the run
    run_pc         \* the step main is at, "exited", "off"

run_vars == <<run_args, run_specs, run_mapping, run_isdir, run_nodes, run_before, run_i,
              run_todo, run_log, run_done, run_ec, run_failed, run_pc>>

vars == <<exp_vars, mrg_vars, cfg_vars, vld_vars, map_vars, jf_vars, env_vars, run_vars>>

\* the variables that a call of each function leaves alone
other_than_exp == <<mrg_vars, cfg_vars, vld_vars, map_vars, jf_vars, env_vars, run_vars>>
other_than_mrg == <<exp_vars, cfg_vars, vld_vars, map_vars, jf_vars, env_vars, run_vars>>
other_than_cfg == <<exp_vars, mrg_vars, vld_vars, map_vars, jf_vars, env_vars, run_vars>>
other_than_vld == <<exp_vars, mrg_vars, cfg_vars, map_vars, jf_vars, env_vars, run_vars>>
other_than_map == <<exp_vars, mrg_vars, cfg_vars, vld_vars, jf_vars, env_vars, run_vars>>
other_than_jf == <<exp_vars, mrg_vars, cfg_vars, vld_vars, map_vars, env_vars, run_vars>>
other_than_env == <<exp_vars, mrg_vars, cfg_vars, vld_vars, map_vars, jf_vars, run_vars>>
other_than_run == <<exp_vars, mrg_vars, cfg_vars, vld_vars, map_vars, jf_vars, env_vars>>

(***************************************************************************)
(* Characters                                                              *)
(***************************************************************************)

Digits == <<"0", "1", "2", "3", "4", "5", "6", "7", "8", "9">>

DigitChars == {Digits[i] : i \in 1..Len(Digits)}

\* The characters of the model in ASCII order (fnmatch compares the ends of
\* a character range by code point).
AsciiOrder ==
    <<" ", "!", "*", "+", ",", "-", ".", "/">> \o Digits \o
    <<"?", "[", "]", "_", "a", "b", "c", "d", "e", "h", "l", "m", "o", "q", "r", "s", "t", "w",
      "x", "y", "z", "~">>

Ord(c) == CHOOSE i \in 1..Len(AsciiOrder) : AsciiOrder[i] = c

\* \w of the regular expressions, over the characters of the model.
WordChars == DigitChars \cup {"_", "a", "b", "c", "d", "e", "h", "l", "m", "o", "q", "r", "s", "t", "w",
                            "x", "y", "z"}

\* The character class [/\w\.\-\ ] of LIST_REGEX and RANGE_REGEX.
InClass == WordChars \cup {"/", ".", "-", " "}

\* The character class [/\w\.\-\ ,] of the inner group of LIST_REGEX.
InListClass == InClass \cup {","}

(***************************************************************************)
(* Python's str operations                                                 *)
(***************************************************************************)

\* c in s
Contains(s, c) == \E i \in 1..Len(s) : s[i] = c

\* sub in s, for a string sub
ContainsStr(s, sub) ==
    \E i \in 1..(Len(s) - Len(sub) + 1) : SubSeq(s, i, i + Len(sub) - 1) = sub

\* every character of s is one of chars
AllChars(s, chars) == \A i \in 1..Len(s) : s[i] \in chars

StartsWith(s, pre) == Len(s) >= Len(pre) /\ SubSeq(s, 1, Len(pre)) = pre

\* s.find(c) + 1: the first position of c in s, 0 when there is none
Find(s, c) ==
    IF Contains(s, c)
    THEN CHOOSE i \in 1..Len(s) : s[i] = c /\ \A j \in 1..(i - 1) : s[j] # c
    ELSE 0

\* s.rfind(c) + 1
RFind(s, c) ==
    IF Contains(s, c)
    THEN CHOOSE i \in 1..Len(s) : s[i] = c /\ \A j \in (i + 1)..Len(s) : s[j] # c
    ELSE 0

\* s.split(c, 1)[0] and s.split(c, 1)[1], for a c that occurs in s
BeforeFirst(s, c) == SubSeq(s, 1, Find(s, c) - 1)
AfterFirst(s, c) == SubSeq(s, Find(s, c) + 1, Len(s))

\* s.split(c): the parts of s between the occurrences of c, empty parts kept
RECURSIVE Split(_, _)
Split(s, c) ==
    IF ~Contains(s, c) THEN <<s>>
    ELSE <<BeforeFirst(s, c)>> \o Split(AfterFirst(s, c), c)

\* s.replace(old, new): every occurrence, left to right, without overlap
RECURSIVE Replace(_, _, _)
Replace(s, old, new) ==
    IF Len(s) < Len(old) \/ old = <<>> THEN s
    ELSE IF StartsWith(s, old)
         THEN new \o Replace(SubSeq(s, Len(old) + 1, Len(s)), old, new)
         ELSE <<Head(s)>> \o Replace(Tail(s), old, new)

\* s.lstrip(c)
RECURSIVE LStrip(_, _)
LStrip(s, c) == IF s # <<>> /\ Head(s) = c THEN LStrip(Tail(s), c) ELSE s

\* s.rstrip(c)
RECURSIVE RStrip(_, _)
RStrip(s, c) ==
    IF s # <<>> /\ s[Len(s)] = c THEN RStrip(SubSeq(s, 1, Len(s) - 1), c) ELSE s

\* int(s), for a non-empty string of decimal digits
DigitValue(c) == Ord(c) - Ord("0")

RECURSIVE IntOfStr(_)
IntOfStr(s) ==
    IF s = <<>> THEN 0
    ELSE 10 * IntOfStr(SubSeq(s, 1, Len(s) - 1)) + DigitValue(s[Len(s)])

\* str(n), for n >= 0
RECURSIVE StrOfInt(_)
StrOfInt(n) ==
    IF n < 10 THEN <<Digits[n + 1]>>
    ELSE StrOfInt(n \div 10) \o <<Digits[(n % 10) + 1]>>

RECURSIVE Flatten(_)
Flatten(L) == IF L = <<>> THEN <<>> ELSE Head(L) \o Flatten(Tail(L))

RECURSIVE SelectSeqOf(_, _)
SelectSeqOf(s, keep) ==
    IF s = <<>> THEN <<>>
    ELSE (IF Head(s) \in keep THEN <<Head(s)>> ELSE <<>>) \o SelectSeqOf(Tail(s), keep)

(***************************************************************************)
(* The regular expressions of utils.py                                     *)
(***************************************************************************)

NoMatch == [matched |-> FALSE]

\* The position of the first "]" after position i of s, 0 when there is none.
CloseAfter(s, i) ==
    IF \E j \in (i + 1)..Len(s) : s[j] = "]"
    THEN CHOOSE j \in (i + 1)..Len(s) :
            s[j] = "]" /\ \A k \in (i + 1)..(j - 1) : s[k] # "]"
    ELSE 0

\* LIST_REGEX.match(s): ^C*(?P<expr>\[(?P<inner>L+)\])C*$ with C the class
\* [/\w\.\-\ ] and L the class [/\w\.\-\ ,]. Neither class holds a bracket,
\* so the expression is the one bracket pair of s.
ListRegexMatch(s) ==
    LET i == Find(s, "[")
        j == CloseAfter(s, i)
    IN  IF /\ i > 0
           /\ j > i + 1
           /\ AllChars(SubSeq(s, 1, i - 1), InClass)
           /\ AllChars(SubSeq(s, i + 1, j - 1), InListClass)
           /\ AllChars(SubSeq(s, j + 1, Len(s)), InClass)
        THEN [matched |-> TRUE,
              expr    |-> SubSeq(s, i, j),
              inner   |-> SubSeq(s, i + 1, j - 1)]
        ELSE NoMatch

\* RANGE_REGEX.match(s): ^C*(?P<expr>\[(?P<lower>\d+)\-(?P<upper>\d+)\])C*$
RangeRegexMatch(s) ==
    LET i     == Find(s, "[")
        j     == CloseAfter(s, i)
        inner == SubSeq(s, i + 1, j - 1)
        lower == BeforeFirst(inner, "-")
        upper == AfterFirst(inner, "-")
    IN  IF /\ i > 0
           /\ j > i + 1
           /\ AllChars(SubSeq(s, 1, i - 1), InClass)
           /\ Contains(inner, "-")
           /\ lower # <<>> /\ AllChars(lower, DigitChars)
           /\ upper # <<>> /\ AllChars(upper, DigitChars)
           /\ AllChars(SubSeq(s, j + 1, Len(s)), InClass)
        THEN [matched |-> TRUE,
              expr    |-> SubSeq(s, i, j),
              lower   |-> lower,
              upper   |-> upper]
        ELSE NoMatch

(***************************************************************************)
(* The file system and Python's glob                                       *)
(*                                                                         *)
(* A file system is the sequence of its files' paths, in the order the     *)
(* directory listing returns them; a path that starts with "/" is          *)
(* absolute, any other is relative to the current directory. The           *)
(* directories are the ones the files lie in.                              *)
(***************************************************************************)

AllSlashes(s) == \A i \in 1..Len(s) : s[i] = "/"

\* os.path.split
PathSplit(p) ==
    LET i    == RFind(p, "/")
        head == SubSeq(p, 1, i)
        tail == SubSeq(p, i + 1, Len(p))
    IN  [head |-> IF head # <<>> /\ ~AllSlashes(head) THEN RStrip(head, "/") ELSE head,
         tail |-> tail]

\* os.path.join(a, b)
PathJoin(a, b) ==
    IF b # <<>> /\ Head(b) = "/" THEN b
    ELSE IF a = <<>> \/ a[Len(a)] = "/" THEN a \o b
    ELSE a \o <<"/">> \o b

\* a directory path without its trailing slashes ("" is the current directory)
DirKey(d) == IF AllSlashes(d) THEN (IF d = <<>> THEN <<>> ELSE <<"/">>) ELSE RStrip(d, "/")

\* file f lies below directory d
Under(f, d) ==
    LET k == DirKey(d)
    IN  IF k = <<>> THEN f # <<>> /\ Head(f) # "/"
        ELSE IF k = <<"/">> THEN StartsWith(f, k)
        ELSE StartsWith(f, k \o <<"/">>)

\* the path of f relative to the directory d it lies below
RelIn(f, d) ==
    LET k == DirKey(d)
    IN  IF k = <<>> THEN f
        ELSE IF k = <<"/">> THEN LStrip(f, "/")
        ELSE LStrip(SubSeq(f, Len(k) + 1, Len(f)), "/")

FileSet(fs) == {fs[i] : i \in 1..Len(fs)}

\* os.path.isfile, os.path.isdir, os.path.lexists / os.path.exists
IsFile(fs, p) == p \in FileSet(fs)
IsDir(fs, d) == d = <<>> \/ \E f \in FileSet(fs) : Under(f, d)
Exists(fs, p) == IsFile(fs, p) \/ (p # <<>> /\ IsDir(fs, p))

RECURSIVE Dedup(_)
Dedup(s) ==
    IF s = <<>> THEN <<>>
    ELSE <<Head(s)>> \o Dedup(SelectSeqOf(Tail(s), FileSet(Tail(s)) \ {Head(s)}))

\* os.listdir(d): the names in directory d; with dironly, its directories
ListDir(fs, d, dironly) ==
    LET below == SelectSeqOf(fs, {f \in FileSet(fs) : Under(f, d)})
        rel   == [i \in 1..Len(below) |-> RelIn(below[i], d)]
        kept  == SelectSeqOf(rel, {r \in FileSet(rel) : ~dironly \/ Contains(r, "/")})
    IN  Dedup([i \in 1..Len(kept) |-> Head(Split(kept[i], "/"))])

\* glob.has_magic
HasMagic(s) == Contains(s, "*") \/ Contains(s, "?") \/ Contains(s, "[")

\* glob._ishidden
IsHidden(s) == s # <<>> /\ Head(s) = "."

\* fnmatch.translate's search for the "]" that closes a character class;
\* rest is the pattern after the "[". 0 when the class is not closed.
ClassEnd(rest) ==
    LET j1 == IF Len(rest) >= 1 /\ rest[1] = "!" THEN 2 ELSE 1
        j2 == IF Len(rest) >= j1 /\ rest[j1] = "]" THEN j1 + 1 ELSE j1
    IN  IF \E j \in j2..Len(rest) : rest[j] = "]"
        THEN CHOOSE j \in j2..Len(rest) :
                rest[j] = "]" /\ \A k \in j2..(j - 1) : rest[k] # "]"
        ELSE 0

\* ch is in the character set body: x-y is the range from x to y (empty when
\* x comes after y), every other character stands for itself
RECURSIVE InCharSet(_, _)
InCharSet(body, ch) ==
    IF body = <<>> THEN FALSE
    ELSE IF Len(body) >= 3 /\ body[2] = "-"
    THEN \/ (Ord(body[1]) <= Ord(ch) /\ Ord(ch) <= Ord(body[3]))
         \/ InCharSet(SubSeq(body, 4, Len(body)), ch)
    ELSE body[1] = ch \/ InCharSet(Tail(body), ch)

\* ch matches the character class [stuff]
ClassMatch(stuff, ch) ==
    IF stuff # <<>> /\ Head(stuff) = "!"
    THEN ~InCharSet(Tail(stuff), ch)
    ELSE InCharSet(stuff, ch)

\* fnmatch.fnmatchcase(name, pat)
RECURSIVE FnMatch(_, _)
FnMatch(name, pat) ==
    IF pat = <<>> THEN name = <<>>
    ELSE LET c    == Head(pat)
             rest == Tail(pat)
             j    == ClassEnd(rest)
         IN  IF c = "*"
             THEN \E k \in 0..Len(name) : FnMatch(SubSeq(name, k + 1, Len(name)), rest)
             ELSE IF c = "?"
             THEN name # <<>> /\ FnMatch(Tail(name), rest)
             ELSE IF c = "[" /\ j > 0
             THEN /\ name # <<>>
                  /\ ClassMatch(SubSeq(rest, 1, j - 1), Head(name))
                  /\ FnMatch(Tail(name), SubSeq(rest, j + 1, Len(rest)))
             ELSE name # <<>> /\ Head(name) = c /\ FnMatch(Tail(name), rest)

\* glob._glob1: the names in dirname that match pattern
Glob1(fs, dirname, pattern, dironly) ==
    LET names == ListDir(fs, dirname, dironly)
    IN  SelectSeqOf(names,
            {n \in FileSet(names) :
                (IsHidden(pattern) \/ ~IsHidden(n)) /\ FnMatch(n, pattern)})

\* glob._glob0: the literal basename, if it exists in dirname
Glob0(fs, dirname, basename) ==
    IF basename # <<>>
    THEN (IF Exists(fs, PathJoin(dirname, basename)) THEN <<basename>> ELSE <<>>)
    ELSE (IF IsDir(fs, dirname) THEN <<basename>> ELSE <<>>)

\* glob.glob(pathname) (glob._iglob with recursive = False)
RECURSIVE GlobGlob(_, _, _)
GlobGlob(fs, pathname, dironly) ==
    LET sp   == PathSplit(pathname)
        dirs == IF sp.head # pathname /\ HasMagic(sp.head)
                THEN GlobGlob(fs, sp.head, TRUE)
                ELSE <<sp.head>>
        InDir(d) == IF HasMagic(sp.tail)
                    THEN Glob1(fs, d, sp.tail, dironly)
                    ELSE Glob0(fs, d, sp.tail)
    IN  IF ~HasMagic(pathname)
        THEN (IF sp.tail # <<>>
              THEN (IF Exists(fs, pathname) THEN <<pathname>> ELSE <<>>)
              ELSE (IF IsDir(fs, sp.head) THEN <<pathname>> ELSE <<>>))
        ELSE IF sp.head = <<>>
        THEN Glob1(fs, <<>>, sp.tail, dironly)
        ELSE Flatten([i \in 1..Len(dirs) |->
                 LET names == InDir(dirs[i])
                 IN  [k \in 1..Len(names) |-> PathJoin(dirs[i], names[k])]])

\* The pattern parts of pathlib's parse_parts: the components between
\* slashes, empty ones and "." dropped.
PatternParts(pattern) ==
    LET comps == Split(pattern, "/")
    IN  SelectSeqOf(comps, FileSet(comps) \ {<<>>, <<".">>})

\* pathlib's selectors: the components comps of a file below the base match
\* the pattern parts; "**" stands for any chain of directories.
RECURSIVE MatchParts(_, _)
MatchParts(comps, parts) ==
    IF parts = <<>> THEN comps = <<>>
    ELSE IF Head(parts) = <<"*", "*">>
    THEN \E k \in 0..(Len(comps) - 1) :
            MatchParts(SubSeq(comps, k + 1, Len(comps)), Tail(parts))
    ELSE /\ comps # <<>>
         /\ IF HasMagic(Head(parts))
            THEN FnMatch(Head(comps), Head(parts))
            ELSE Head(comps) = Head(parts)
         /\ MatchParts(Tail(comps), Tail(parts))

\* [f.as_posix() for f in pathlib.Path(base).glob(pattern) if f.is_file()],
\* base being "/" or ".". A "**" that is not a whole component is refused
\* (ValueError: Invalid pattern), as is an empty pattern.
PathlibGlob(fs, base, pattern) ==
    LET parts == PatternParts(pattern)
        bad   == \/ pattern = <<>>
                 \/ \E i \in 1..Len(parts) :
                       parts[i] # <<"*", "*">> /\ ContainsStr(parts[i], <<"*", "*">>)
        dir   == IF base = <<"/">> THEN base ELSE <<>>
        hits  == {f \in FileSet(fs) :
                     Under(f, dir) /\ MatchParts(PatternParts(RelIn(f, dir)), parts)}
    IN  IF bad THEN [ok |-> FALSE, paths |-> <<>>]
        ELSE [ok |-> TRUE, paths |-> SelectSeqOf(fs, hits)]

(***************************************************************************)
(* utils.parse_file_paths                                                  *)
(***************************************************************************)

Ok(paths) == [ok |-> TRUE, paths |-> paths, err |-> ""]
Fail(err) == [ok |-> FALSE, paths |-> <<>>, err |-> err]

\* a slip that keeps the empty parts
KeepPart_All(p) == TRUE

\* `if p:` -- the parts of a list expression that become paths
KeepPart(p) == p # <<>>

\* a slip that accepts an upper bound equal to the lower bound
RangeBoundsOk_Equal(lb, ub) == ub >= lb

\* `if not ub > lb: raise`
RangeBoundsOk(lb, ub) == ub > lb

\* a slip that stops one short: range(lb, ub)
RangeValues_Short(lb, ub) == [i \in 1..(ub - lb) |-> lb + i - 1]

\* range(lb, ub + 1)
RangeValues(lb, ub) == [i \in 1..(ub + 1 - lb) |-> lb + i - 1]

\* the first branch: no '*', '[' or ']' in the spec
IsLiteralSpec(s) == ~Contains(s, "*") /\ ~Contains(s, "[") /\ ~Contains(s, "]")

\* a slip that tries the bracket expression before the glob
IsGlobSpec_BracketFirst(s) == Contains(s, "*") /\ ~Contains(s, "[")

\* the second branch: '*' in the spec
IsGlobSpec(s) == Contains(s, "*")

\* the glob branch of parse_file_paths; any exception of the glob becomes the
\* function's own
GlobBranch(fs, s) ==
    IF ~ContainsStr(s, <<"*", "*">>)
    THEN Ok(GlobGlob(fs, s, FALSE))
    ELSE LET base == IF StartsWith(s, <<"/">>) THEN <<"/">> ELSE <<".">>
             pat  == IF StartsWith(s, <<"/">>) THEN LStrip(s, "/") ELSE s
             got  == PathlibGlob(fs, base, pat)
         IN  IF got.ok THEN Ok(got.paths)
             ELSE Fail("path specification globbing encountered an exception")

\* the list expression: one path per kept part, the expression replaced by it
ListBranch(s) ==
    LET m     == ListRegexMatch(s)
        parts == Split(SubSeq(m.expr, 2, Len(m.expr) - 1), ",")
        kept  == SelectSeqOf(parts, {p \in FileSet(parts) : KeepPart(p)})
    IN  IF ~m.matched
        THEN Fail("path specification does not contain a valid list expression")
        ELSE Ok([i \in 1..Len(kept) |-> Replace(s, m.expr, kept[i])])

\* the range expression: one path per integer from lb to ub
RangeBranch(s) ==
    LET m    == RangeRegexMatch(s)
        lb   == IntOfStr(m.lower)
        ub   == IntOfStr(m.upper)
        vals == RangeValues(lb, ub)
    IN  IF ~m.matched
        THEN Fail("path specification does not contain a valid range expression")
        ELSE IF ~RangeBoundsOk(lb, ub)
        THEN Fail("upperbound in path specification range expression is not greater than the lowerbound")
        ELSE Ok([i \in 1..Len(vals) |-> Replace(s, m.expr, StrOfInt(vals[i]))])

\* the third branch: '[' and ']' in the spec
BracketBranch(s) ==
    LET after == AfterFirst(s, "[")
        guts  == BeforeFirst(after, "]")
    IN  IF ~Contains(after, "]")
        THEN Fail("path specification has its shoelaces crossed")
        ELSE IF Contains(guts, ",") THEN ListBranch(s)
        ELSE IF Contains(guts, "-") THEN RangeBranch(s)
        ELSE Fail("path specification does not specify a range or list expression")

\* parse_file_paths(path_spec), over the file system fs
ParseFilePaths(fs, s) ==
    IF IsLiteralSpec(s) THEN Ok(<<s>>)
    ELSE IF IsGlobSpec(s) THEN GlobBranch(fs, s)
    ELSE IF Contains(s, "[") /\ Contains(s, "]") THEN BracketBranch(s)
    ELSE Fail("path specification does not have balanced brackets")

(***************************************************************************)
(* The expander's specification: a path specification is drawn, then       *)
(* parse_file_paths is applied to it.                                      *)
(***************************************************************************)

MaxLen == 3
MaxInner == 4

StringsUpTo(chars, n) == UNION {[1..k -> chars] : k \in 0..n}

FreeChars == {"a", "1", "[", "]", "*", ",", "-"}
InnerChars == {"a", "0", "1", ",", "-"}
Affixes == {<<>>, <<"a">>, <<"+">>, <<"*">>, <<"*", "*">>, <<"[">>, <<"]">>}

\* every short string, and every bracket expression between two affixes
PathSpecs ==
    StringsUpTo(FreeChars, MaxLen) \cup
    {pre \o <<"[">> \o inner \o <<"]">> \o suf :
        pre \in Affixes, inner \in StringsUpTo(InnerChars, MaxInner), suf \in Affixes}

\* the files of the current directory
ExpandFiles ==
    << <<"a", "1">>, <<"a", "0">>, <<"a">>, <<"0">>, <<"a", ",">>, <<"+", "1">>,
       <<"a", "[", "1", "]">> >>

NoResult == [ok |-> FALSE, paths |-> <<>>, err |-> "not called"]

InitExpand ==
    /\ path_spec \in PathSpecs
    /\ exp_fs = ExpandFiles
    /\ exp_result = NoResult
    /\ exp_pc = "ready"

CallParseFilePaths ==
    /\ exp_pc = "ready"
    /\ exp_result' = ParseFilePaths(exp_fs, path_spec)
    /\ exp_pc' = "done"
    /\ UNCHANGED <<path_spec, exp_fs>>
    /\ UNCHANGED other_than_exp

NextExpand == CallParseFilePaths

\* no call of parse_file_paths is modelled
ExpandOff ==
    /\ path_spec = <<>>
    /\ exp_fs = <<>>
    /\ exp_result = NoResult
    /\ exp_pc = "off"


(***************************************************************************)
(* Properties of the expander                                              *)
(***************************************************************************)

ExpandDone == exp_pc = "done"

\* free of the characters of the expansion syntax named by the claims
BracketFree(t) == ~Contains(t, "*") /\ ~Contains(t, "[") /\ ~Contains(t, "]")

\* made of the characters the expressions admit around and inside a bracket
ClassOnly(t) == AllChars(t, InClass)
ListClassOnly(t) == AllChars(t, InListClass)

Prefix(s, i) == SubSeq(s, 1, i - 1)
Suffix(s, j) == SubSeq(s, j + 1, Len(s))
Between(s, i, j) == SubSeq(s, i + 1, j - 1)

\* the places <<i, k, j>> where s reads [N-M], N and M decimal numbers
RangeShapes(s) ==
    {t \in (1..Len(s)) \X (1..Len(s)) \X (1..Len(s)) :
        /\ t[1] + 1 < t[2] /\ t[2] + 1 < t[3]
        /\ s[t[1]] = "[" /\ s[t[2]] = "-" /\ s[t[3]] = "]"
        /\ AllChars(Between(s, t[1], t[2]), DigitChars)
        /\ AllChars(Between(s, t[2], t[3]), DigitChars)}

LowerOf(s, t) == IntOfStr(Between(s, t[1], t[2]))
UpperOf(s, t) == IntOfStr(Between(s, t[2], t[3]))

\* prefix + str(N + i) + suffix for i = 0 .. M - N
RangeExpected(s, t) ==
    [x \in 1..(UpperOf(s, t) - LowerOf(s, t) + 1) |->
        Prefix(s, t[1]) \o StrOfInt(LowerOf(s, t) + x - 1) \o Suffix(s, t[3])]

\* the places <<i, j>> where s reads [p1,...,pn]: a bracket pair around
\* comma-separated parts
ListShapes(s) ==
    {t \in (1..Len(s)) \X (1..Len(s)) :
        /\ t[1] < t[2]
        /\ s[t[1]] = "[" /\ s[t[2]] = "]"
        /\ BracketFree(Between(s, t[1], t[2]))
        /\ Contains(Between(s, t[1], t[2]), ",")}

\* one path per non-empty part, in the order written
ListExpected(s, t) ==
    LET parts == Split(Between(s, t[1], t[2]), ",")
        kept  == SelectSeqOf(parts, FileSet(parts) \ {<<>>})
    IN  [x \in 1..Len(kept) |-> Prefix(s, t[1]) \o kept[x] \o Suffix(s, t[2])]

Count(s, c) == Cardinality({i \in 1..Len(s) : s[i] = c})

\* every "]" closes an earlier "[" and every "[" is closed
BracketsBalanced(s) ==
    /\ Count(s, "[") = Count(s, "]")
    /\ \A n \in 1..Len(s) : Count(SubSeq(s, 1, n), "]") <= Count(SubSeq(s, 1, n), "[")

HasBadRange(s) == \E t \in RangeShapes(s) : UpperOf(s, t) <= LowerOf(s, t)

\* C3: parse_file_paths fails for every glob-free spec that contains a range
\* [N-M] with M <= N, and for every glob-free spec whose brackets are
\* unbalanced or mis-ordered.
C3_BadSpecFails ==
    (/\ ExpandDone
     /\ ~Contains(path_spec, "*")
     /\ (HasBadRange(path_spec) \/ ~BracketsBalanced(path_spec)))
    => (~exp_result.ok /\ exp_result.paths = <<>>)

C3_Witness ==
    /\ ExpandDone
    /\ ~Contains(path_spec, "*")
    /\ BracketsBalanced(path_spec)
    /\ \E t \in RangeShapes(path_spec) :
          /\ UpperOf(path_spec, t) = LowerOf(path_spec, t)
          /\ ClassOnly(Prefix(path_spec, t[1]))
          /\ ClassOnly(Suffix(path_spec, t[3]))
    /\ ~exp_result.ok

C3_WitnessUnbalanced ==
    /\ ExpandDone
    /\ ~Contains(path_spec, "*")
    /\ ~BracketsBalanced(path_spec)
    /\ Count(path_spec, "[") = Count(path_spec, "]")
    /\ ~exp_result.ok

HasBracketSyntax(s) == RangeShapes(s) # {} \/ ListShapes(s) # {}

YStr(v) == [k |-> "str", v |-> v]
YInt(v) == [k |-> "int", v |-> v]
YList(v) == [k |-> "list", v |-> v]
YDict(v) == [k |-> "dict", v |-> v]

IsStr(d) == d.k = "str"
IsList(d) == d.k = "list"
IsDict(d) == d.k = "dict"

\* a slip that puts the second list first
ListMerge_Reversed(l1, l2) == l2 \o l1

\* return_list = val1.copy(); return_list.extend(val2.copy())
ListMerge(l1, l2) == l1 \o l2

\* a slip that forgets the `else: return_dict[key] = val` branch
DictMergeKeys_Left(d1, d2) == DOMAIN d1

\* the keys of return_dict: those of val1.copy(), then every key of val2
DictMergeKeys(d1, d2) == DOMAIN d1 \cup DOMAIN d2

RECURSIVE MergeYamlData(_, _)
MergeYamlData(data1, data2) ==
    IF IsStr(data1) /\ IsStr(data2) THEN data2
    ELSE IF IsList(data1) /\ IsList(data2) THEN YList(ListMerge(data1.v, data2.v))
    ELSE IF IsDict(data1) /\ IsDict(data2)
    THEN YDict([key \in DictMergeKeys(data1.v, data2.v) |->
                  IF key \in DOMAIN data2.v
                  THEN (IF key \in DOMAIN data1.v
                        THEN MergeYamlData(data1.v[key], data2.v[key])
                        ELSE data2.v[key])
                  ELSE data1.v[key]])
    ELSE data2

(***************************************************************************)
(* The merge's specification: three values are drawn, then merged in both  *)
(* groupings.                                                              *)
(***************************************************************************)

MaxNodes == 7

Scalars == {YStr(<<"a">>), YInt(1)}
ListElems == {YStr(<<"a">>), YStr(<<"b">>)}
Keys == {"x", "y"}

Max(a, b) == IF a > b THEN a ELSE b

RECURSIVE SumOver(_, _)
SumOver(f, D) ==
    IF D = {} THEN 0
    ELSE LET d == CHOOSE d \in D : TRUE IN f[d] + SumOver(f, D \ {d})

\* the size of a value: one per scalar, one per container plus its content
\* (an empty container counts as two)
RECURSIVE Weight(_)
Weight(d) ==
    IF IsList(d) THEN 1 + Max(1, Len(d.v))
    ELSE IF IsDict(d)
    THEN 1 + Max(1, SumOver([key \in DOMAIN d.v |-> Weight(d.v[key])], DOMAIN d.v))
    ELSE 1

RECURSIVE ValuesUpTo(_)
ValuesUpTo(n) ==
    IF n <= 0 THEN {}
    ELSE Scalars
         \cup {l \in {YList(q) : q \in StringsUpTo(ListElems, n - 1)} : Weight(l) <= n}
         \cup {d \in {YDict(f) : f \in UNION {[D -> ValuesUpTo(n - 1)] : D \in SUBSET Keys}} :
                  Weight(d) <= n}

ValueTable == [n \in 0..(MaxNodes - 2) |-> ValuesUpTo(n)]

NoValue == YStr(<<>>)

InitMerge ==
    /\ val1 \in ValueTable[MaxNodes - 2]
    /\ val2 \in ValueTable[MaxNodes - 1 - Weight(val1)]
    /\ val3 \in ValueTable[MaxNodes - Weight(val1) - Weight(val2)]
    /\ merged12 = NoValue /\ merged23 = NoValue
    /\ mergedL = NoValue /\ mergedR = NoValue
    /\ mrg_pc = "ready"

\* merge_yaml_data(val1, val2) and merge_yaml_data(val2, val3)
MergePairs ==
    /\ mrg_pc = "ready"
    /\ merged12' = MergeYamlData(val1, val2)
    /\ merged23' = MergeYamlData(val2, val3)
    /\ mrg_pc' = "paired"
    /\ UNCHANGED <<val1, val2, val3, mergedL, mergedR>>
    /\ UNCHANGED other_than_mrg

\* merge_yaml_data(merged12, val3) and merge_yaml_data(val1, merged23)
MergeThird ==
    /\ mrg_pc = "paired"
    /\ mergedL' = MergeYamlData(merged12, val3)
    /\ mergedR' = MergeYamlData(val1, merged23)
    /\ mrg_pc' = "done"
    /\ UNCHANGED <<val1, val2, val3, merged12, merged23>>
    /\ UNCHANGED other_than_mrg

NextMerge == MergePairs \/ MergeThird

\* no call of merge_yaml_data is modelled
MergeOff ==
    /\ val1 = NoValue /\ val2 = NoValue /\ val3 = NoValue
    /\ merged12 = NoValue /\ merged23 = NoValue
    /\ mergedL = NoValue /\ mergedR = NoValue
    /\ mrg_pc = "off"

(***************************************************************************)
(* Properties of the merge                                                 *)
(***************************************************************************)

\* r is what the deep-merge rule gives for A = a and B = b
RECURSIVE DeepMergeRule(_, _, _)
DeepMergeRule(a, b, r) ==
    IF IsDict(a) /\ IsDict(b)
    THEN /\ IsDict(r)
         /\ DOMAIN r.v = DOMAIN a.v \cup DOMAIN b.v
         /\ \A key \in DOMAIN r.v :
               IF key \in DOMAIN a.v /\ key \in DOMAIN b.v
               THEN DeepMergeRule(a.v[key], b.v[key], r.v[key])
               ELSE IF key \in DOMAIN a.v
               THEN r.v[key] = a.v[key]
               ELSE r.v[key] = b.v[key]
    ELSE IF IsList(a) /\ IsList(b)
    THEN /\ IsList(r)
         /\ Len(r.v) = Len(a.v) + Len(b.v)
         /\ \A i \in 1..Len(a.v) : r.v[i] = a.v[i]
         /\ \A i \in 1..Len(b.v) : r.v[Len(a.v) + i] = b.v[i]
    ELSE r = b

\* C5: merge_yaml_data(A, B) follows the deep-merge rule at every key: two
\* mappings merge key by key over the union of their keys, two sequences give
\* A followed by B with duplicates kept, anything else gives B.
C5_DeepMerge ==
    /\ mrg_pc \in {"paired", "done"} =>
          /\ DeepMergeRule(val1, val2, merged12)
          /\ DeepMergeRule(val2, val3, merged23)
    /\ mrg_pc = "done" =>
          /\ DeepMergeRule(merged12, val3, mergedL)
          /\ DeepMergeRule(val1, merged23, mergedR)

C5_Witness ==
    /\ mrg_pc = "paired"
    /\ IsDict(val1) /\ IsDict(val2)
    /\ \E key \in DOMAIN val1.v \cap DOMAIN val2.v :
          /\ IsList(val1.v[key]) /\ val1.v[key].v # <<>>
          /\ val2.v[key] = val1.v[key]
          /\ merged12.v[key].v = val1.v[key].v \o val1.v[key].v

\* at some key path a and c are both sequences, or both mappings, and b is
\* of another kind
RECURSIVE Sandwich(_, _, _)
Sandwich(a, b, c) ==
    \/ IsList(a) /\ IsList(c) /\ ~IsList(b)
    \/ IsDict(a) /\ IsDict(c) /\ ~IsDict(b)
    \/ /\ IsDict(a) /\ IsDict(b) /\ IsDict(c)
       /\ \E key \in (DOMAIN a.v \cap DOMAIN b.v) \cap DOMAIN c.v :
             Sandwich(a.v[key], b.v[key], c.v[key])

\* C6 as stated: merge(merge(A, B), C) = merge(A, merge(B, C)) for all A, B, C.
\* (Fails: A = [a], B = 1, C = [b] gives [b] on the left, [a, b] on the right.)
C6_Associative ==
    mrg_pc = "done" => mergedL = mergedR

\* C6 amended: merge(merge(A, B), C) = merge(A, merge(B, C)) unless, at some
\* key path the three values share, A and C are both sequences or both
\* mappings while B is of another kind.
C6_AssociativeUnlessSandwich ==
    (mrg_pc = "done" /\ ~Sandwich(val1, val2, val3)) => mergedL = mergedR

C6_Witness ==
    /\ mrg_pc = "done"
    /\ ~Sandwich(val1, val2, val3)
    /\ IsDict(val1) /\ IsDict(val2) /\ IsDict(val3)
    /\ \E key \in (DOMAIN val1.v \cap DOMAIN val3.v) \ DOMAIN val2.v :
          val1.v[key] # val3.v[key]
    /\ mergedL = mergedR

C6_WitnessLists ==
    /\ mrg_pc = "done"
    /\ IsList(val1) /\ IsList(val2) /\ IsList(val3)
    /\ val1.v # <<>> /\ val2.v # <<>> /\ val3.v # <<>>
    /\ val1 # val2
    /\ mergedL = mergedR

(***************************************************************************)
(* Paths: os.path and utils.get_path                                       *)
(***************************************************************************)

\* '/'.join(comps)
RECURSIVE JoinWith(_, _)
JoinWith(comps, sep) ==
    IF comps = <<>> THEN <<>>
    ELSE IF Len(comps) = 1 THEN comps[1]
    ELSE comps[1] \o sep \o JoinWith(Tail(comps), sep)

\* the loop of posixpath.normpath over the components: "" and "." are
\* dropped, ".." removes the component before it where there is one
RECURSIVE NormComps(_, _, _)
NormComps(comps, new, rooted) ==
    IF comps = <<>> THEN new
    ELSE LET c == Head(comps)
         IN  IF c = <<>> \/ c = <<".">> THEN NormComps(Tail(comps), new, rooted)
             ELSE IF \/ c # <<".", ".">>
                     \/ (~rooted /\ new = <<>>)
                     \/ (new # <<>> /\ new[Len(new)] = <<".", ".">>)
             THEN NormComps(Tail(comps), Append(new, c), rooted)
             ELSE IF new # <<>>
             THEN NormComps(Tail(comps), SubSeq(new, 1, Len(new) - 1), rooted)
             ELSE NormComps(Tail(comps), new, rooted)

\* os.path.normpath
NormPath(path) ==
    LET rooted == StartsWith(path, <<"/">>)
        slashes == IF ~rooted THEN <<>>
                   ELSE IF StartsWith(path, <<"/", "/">>) /\ ~StartsWith(path, <<"/", "/", "/">>)
                   THEN <<"/", "/">>
                   ELSE <<"/">>
        joined == slashes \o JoinWith(NormComps(Split(path, "/"), <<>>, rooted), <<"/">>)
    IN  IF joined = <<>> THEN <<".">> ELSE joined

\* os.path.abspath, the process running in directory cwd
AbsPath(cwd, path) ==
    IF StartsWith(path, <<"/">>) THEN NormPath(path) ELSE NormPath(PathJoin(cwd, path))

\* os.path.realpath; the model's file systems hold no symbolic links
RealPath(cwd, path) == AbsPath(cwd, path)

\* os.path.dirname
DirName(path) == PathSplit(path).head

\* the home directory of the user running the program
HomeDir == <<"/", "h">>

\* os.path.expanduser, for the running user
ExpandUser(path) ==
    IF path = <<"~">> \/ StartsWith(path, <<"~", "/">>)
    THEN HomeDir \o Tail(path)
    ELSE path

\* utils.get_path(template_path, base_path), with utils.TEMPLATE_DIR = tdir
GetPath(cwd, tdir, template_path, base_path) ==
    IF StartsWith(template_path, <<"/">>) THEN template_path
    ELSE IF StartsWith(template_path, <<"~">>) THEN ExpandUser(template_path)
    ELSE IF base_path # <<>>
    THEN (IF ContainsStr(base_path, <<".", ".", "/">>)
          THEN AbsPath(cwd, PathJoin(base_path, template_path))
          ELSE NormPath(PathJoin(base_path, template_path)))
    ELSE NormPath(PathJoin(tdir, template_path))

(***************************************************************************)
(* config.parse and config.get_lib_paths                                   *)
(*                                                                         *)
(* parse calls itself for every include path, so the run of parse(path) is *)
(* a stack of calls. A frame is [path, phase, data, todo]: "enter" before  *)
(* the body has run, "loop" inside `for i in flat_includes` with the paths *)
(* still to do, "wait" while parse(i) runs.                                *)
(***************************************************************************)

\* the depth of calls at which Python raises RecursionError
MaxCallDepth == 5

\* the directory the program runs in
Cwd == <<"/", "c">>

\* the file system as glob sees it: every file by its absolute path, and the
\* files below the current directory also by their relative path
FsView(files) ==
    LET below == SelectSeqOf(files, {f \in FileSet(files) : Under(f, Cwd)})
    IN  files \o [i \in 1..Len(below) |-> RelIn(below[i], Cwd)]

\* os.path.isfile(path)
OsIsFile(files, path) == AbsPath(Cwd, path) \in FileSet(files)

\* a slip that flattens the expansions last entry first
RECURSIVE FlatPaths_Reversed(_, _, _, _)
FlatPaths_Reversed(files, tdir, entries, path_dir) ==
    IF entries = <<>> THEN Ok(<<>>)
    ELSE LET p    == Head(entries)
             one  == ParseFilePaths(FsView(files), GetPath(Cwd, tdir, p.v, path_dir))
             rest == FlatPaths_Reversed(files, tdir, Tail(entries), path_dir)
         IN  IF ~IsStr(p) THEN Fail("object has no attribute 'startswith'")
             ELSE IF ~one.ok THEN one
             ELSE IF ~rest.ok THEN rest
             ELSE Ok(rest.paths \o one.paths)

\* flatten(parse_file_paths(get_path(p, path_dir)) for p in entries); a p
\* that is no string has no startswith, which raises as a bad spec does
RECURSIVE FlatPaths(_, _, _, _)
FlatPaths(files, tdir, entries, path_dir) ==
    IF entries = <<>> THEN Ok(<<>>)
    ELSE LET p    == Head(entries)
             one  == ParseFilePaths(FsView(files), GetPath(Cwd, tdir, p.v, path_dir))
             rest == FlatPaths(files, tdir, Tail(entries), path_dir)
         IN  IF ~IsStr(p) THEN Fail("object has no attribute 'startswith'")
             ELSE IF ~one.ok THEN one
             ELSE IF ~rest.ok THEN rest
             ELSE Ok(one.paths \o rest.paths)

TopFrame == cfg_stack[Len(cfg_stack)]
Callers == SubSeq(cfg_stack, 1, Len(cfg_stack) - 1)

\* a slip that returns an empty document where parse raises
Raise_ReturnsEmpty(err) ==
    /\ cfg_stack' = Callers
    /\ IF Callers = <<>>
       THEN cfg_pc' = "done" /\ cfg_out' = YDict([key \in {} |-> NoValue]) /\ UNCHANGED cfg_ret
       ELSE cfg_ret' = YDict([key \in {} |-> NoValue]) /\ UNCHANGED <<cfg_pc, cfg_out>>
    /\ UNCHANGED cfg_err

\* `raise`: no call of parse catches the exception of the parse it calls
Raise(err) ==
    /\ cfg_pc' = "failed"
    /\ cfg_err' = err
    /\ cfg_stack' = <<>>
    /\ UNCHANGED <<cfg_ret, cfg_out>>

\* a slip that gives up the call that went too deep and lets the calling
\* parse take the same include again
RaiseRecursion_Retry ==
    /\ cfg_stack' = Append(SubSeq(Callers, 1, Len(Callers) - 1),
                           [Callers[Len(Callers)] EXCEPT !.phase = "loop"])
    /\ UNCHANGED <<cfg_ret, cfg_pc, cfg_out, cfg_err>>

\* RecursionError: the interpreter refuses one more nested call of parse
RaiseRecursion == Raise("maximum recursion depth exceeded")

\* `return data`, to the calling parse or to main
Return(data) ==
    /\ cfg_stack' = Callers
    /\ IF Callers = <<>>
       THEN cfg_pc' = "done" /\ cfg_out' = data /\ UNCHANGED cfg_ret
       ELSE cfg_ret' = data /\ UNCHANGED <<cfg_pc, cfg_out>>
    /\ UNCHANGED cfg_err

\* `if not 'include' in data: return data`
NoIncludeResult(path, data) == data

\* parse(path) up to the include loop (lines 146-172)
ParseEnter ==
    /\ cfg_pc = "running"
    /\ cfg_stack # <<>>
    /\ TopFrame.phase = "enter"
    /\ LET path == TopFrame.path
           data == cfg_docs[AbsPath(Cwd, path)]
           flat == FlatPaths(cfg_fs, template_dir, data.v["include"].v, DirName(path))
       IN  IF Len(cfg_stack) > MaxCallDepth
           THEN RaiseRecursion
           ELSE IF ~OsIsFile(cfg_fs, path)
           THEN Raise("template configuration file does not exist")
           ELSE IF ~IsDict(data)
           THEN Raise("template configuration file does not resolve to a dictionary of specifications")
           ELSE IF "include" \notin DOMAIN data.v
           THEN Return(NoIncludeResult(path, data))
           ELSE IF ~IsList(data.v["include"])
           THEN Raise("include specification is not a list of path specifications")
           ELSE IF ~flat.ok
           THEN Raise("include specification parsing error")
           ELSE /\ cfg_stack' = Append(Callers,
                       [path |-> path, phase |-> "loop", data |-> data, todo |-> flat.paths])
                /\ UNCHANGED <<cfg_ret, cfg_pc, cfg_out, cfg_err>>
    /\ cfg_log' = IF Len(cfg_stack) <= MaxCallDepth /\ OsIsFile(cfg_fs, TopFrame.path)
                  THEN Append(cfg_log, [path |-> TopFrame.path, depth |-> Len(cfg_stack)])
                  ELSE cfg_log
    /\ UNCHANGED <<cfg_fs, cfg_docs, cfg_root, template_dir, lib_paths>>
    /\ UNCHANGED other_than_cfg

\* `for i in flat_includes: idata = parse(i)` (lines 173-176)
ParseInclude ==
    /\ cfg_pc = "running"
    /\ cfg_stack # <<>>
    /\ TopFrame.phase = "loop"
    /\ TopFrame.todo # <<>>
    /\ cfg_stack' = Append(Callers, [TopFrame EXCEPT !.phase = "wait"]) \o
                    << [path |-> Head(TopFrame.todo), phase |-> "enter",
                        data |-> NoValue, todo |-> <<>>] >>
    /\ UNCHANGED <<cfg_ret, cfg_pc, cfg_out, cfg_err>>
    /\ UNCHANGED <<cfg_fs, cfg_docs, cfg_root, template_dir, lib_paths, cfg_log>>
    /\ UNCHANGED other_than_cfg

\* a slip that merges the other way round
IncludeMerge_Swapped(data, idata) == MergeYamlData(idata, data)

\* data = utils.merge_yaml_data(data, idata)
IncludeMerge(data, idata) == MergeYamlData(data, idata)

\* parse(i) returned: merge what it returned (lines 176-180)
ParseMerge ==
    /\ cfg_pc = "running"
    /\ cfg_stack # <<>>
    /\ TopFrame.phase = "wait"
    /\ cfg_stack' = Append(Callers,
            [TopFrame EXCEPT !.phase = "loop",
                             !.data = IncludeMerge(TopFrame.data, cfg_ret),
                             !.todo = Tail(TopFrame.todo)])
    /\ UNCHANGED <<cfg_ret, cfg_pc, cfg_out, cfg_err>>
    /\ UNCHANGED <<cfg_fs, cfg_docs, cfg_root, template_dir, lib_paths, cfg_log>>
    /\ UNCHANGED other_than_cfg

\* a slip that removes the include key once the includes are merged
Finished_NoInclude(path, data) ==
    YDict([key \in (DOMAIN data.v \cup {"template_configuration_file"}) \ {"include"} |->
              IF key = "template_configuration_file"
              THEN YStr(RealPath(Cwd, path))
              ELSE data.v[key]])

\* data['template_configuration_file'] = os.path.realpath(path)
Finished(path, data) ==
    YDict([key \in DOMAIN data.v \cup {"template_configuration_file"} |->
              IF key = "template_configuration_file"
              THEN YStr(RealPath(Cwd, path))
              ELSE data.v[key]])

\* the loop is over: record the path and return (lines 181-182)
ParseFinish ==
    /\ cfg_pc = "running"
    /\ cfg_stack # <<>>
    /\ TopFrame.phase = "loop"
    /\ TopFrame.todo = <<>>
    /\ Return(Finished(TopFrame.path, TopFrame.data))
    /\ UNCHANGED <<cfg_fs, cfg_docs, cfg_root, template_dir, lib_paths, cfg_log>>
    /\ UNCHANGED other_than_cfg

\* config.get_lib_paths(conf), called by main once parse has returned
GetLibPaths ==
    /\ cfg_pc = "done"
    /\ LET conf == cfg_out.v
           libs == FlatPaths(cfg_fs, template_dir, conf["lib"].v,
                             DirName(conf["template_configuration_file"].v))
       IN  IF "lib" \notin DOMAIN conf
           THEN cfg_pc' = "libs" /\ lib_paths' = <<>> /\ UNCHANGED cfg_err
           ELSE IF "template_configuration_file" \notin DOMAIN conf
           THEN cfg_pc' = "libfail" /\ cfg_err' = "KeyError: 'template_configuration_file'"
                /\ UNCHANGED lib_paths
           ELSE IF ~libs.ok
           THEN cfg_pc' = "libfail" /\ cfg_err' = "unable to parse library extension paths"
                /\ UNCHANGED lib_paths
           ELSE cfg_pc' = "libs" /\ lib_paths' = libs.paths /\ UNCHANGED cfg_err
    /\ UNCHANGED <<cfg_fs, cfg_docs, cfg_root, template_dir, cfg_stack, cfg_ret, cfg_out, cfg_log>>
    /\ UNCHANGED other_than_cfg

(***************************************************************************)
(* The loader's specification: a set of configuration files is drawn, then *)
(* main calls parse(args.template_conf) and get_lib_paths(conf).           *)
(***************************************************************************)

FileR == <<"/", "c", "/", "r">>
FileA == <<"/", "c", "/", "a">>
FileB == <<"/", "c", "/", "b">>
FileE == <<"/", "c", "/", "d", "/", "e">>

ConfigFiles == <<FileR, FileA, FileB, FileE>>

Inc(entries) == "include" :> YList(entries)
Nothing == [key \in {} |-> NoValue]

\* the include key of the root document: none, one or two files, a list
\* expression, a glob, a missing file, a glob that matches nothing, and the
\* malformed ones
RootIncludes ==
    { Nothing,
      Inc(<<YStr(<<"a">>)>>),
      Inc(<<YStr(<<"a">>), YStr(<<"b">>)>>),
      Inc(<<YStr(<<"b">>), YStr(<<"a">>)>>),
      Inc(<<YStr(<<"[", "b", ",", "a", "]">>)>>),
      Inc(<<YStr(<<"a", "*">>), YStr(<<"/", "c", "/", "b">>)>>),
      Inc(<<YStr(<<"a">>), YStr(<<"m">>)>>),
      Inc(<<YStr(<<"m", "*">>)>>),
      Inc(<<YStr(<<"[", "a">>)>>),
      Inc(<<YInt(5)>>),
      "include" :> YInt(5) }

RootLibs == { Nothing, "lib" :> YList(<<YStr(<<"l">>)>>) }

RootDocs ==
    { YDict(("x" :> YInt(2)) @@ ("y" :> YInt(3)) @@ ("l" :> YList(<<YStr(<<"r">>)>>))
            @@ inc @@ lib) : inc \in RootIncludes, lib \in RootLibs }

\* /c/a: it sets x or not, and includes nothing, b, the root (a cycle), d/e,
\* a missing file, or has a string for its include key
ADocs ==
    { YDict(("l" :> YList(<<YStr(<<"a">>)>>)) @@ x @@ inc) :
        x \in {Nothing, "x" :> YInt(1)},
        inc \in { Nothing,
                  Inc(<<YStr(<<"b">>)>>),
                  Inc(<<YStr(<<"r">>)>>),
                  Inc(<<YStr(<<"a">>)>>),
                  Inc(<<YStr(<<"d", "/", "e">>)>>),
                  Inc(<<YStr(<<"m">>)>>),
                  "include" :> YStr(<<"b">>) } }

\* /c/b: a document, or YAML that is no mapping
BDocs ==
    { YDict(("x" :> YInt(5)) @@ ("l" :> YList(<<YStr(<<"b">>)>>))),
      YDict(("y" :> YInt(9)) @@ ("lib" :> YList(<<YStr(<<"l">>)>>))),
      YList(<<YStr(<<"b">>)>>) }

\* /c/d/e includes ../b
EDoc ==
    YDict(("x" :> YInt(7)) @@ ("l" :> YList(<<YStr(<<"e">>)>>))
          @@ Inc(<<YStr(<<".", ".", "/", "b">>)>>))

\* how the root configuration file is named on the command line
RootPaths == { FileR, <<"r">> }

InitConfig ==
    /\ cfg_fs = ConfigFiles
    /\ \E r \in RootDocs, a \in ADocs, b \in BDocs :
          cfg_docs = (FileR :> r) @@ (FileA :> a) @@ (FileB :> b) @@ (FileE :> EDoc)
    /\ cfg_root \in RootPaths
    /\ template_dir = DirName(cfg_root)
    /\ cfg_stack = << [path |-> cfg_root, phase |-> "enter", data |-> NoValue, todo |-> <<>>] >>
    /\ cfg_ret = NoValue
    /\ cfg_pc = "running"
    /\ cfg_out = NoValue
    /\ cfg_err = ""
    /\ lib_paths = <<>>
    /\ cfg_log = <<>>

\* no run of config.parse is modelled
ConfigOff ==
    /\ cfg_fs = <<>>
    /\ cfg_docs = Nothing
    /\ cfg_root = <<>>
    /\ template_dir = <<>>
    /\ cfg_stack = <<>>
    /\ cfg_ret = NoValue
    /\ cfg_pc = "off"
    /\ cfg_out = NoValue
    /\ cfg_err = ""
    /\ lib_paths = <<>>
    /\ cfg_log = <<>>

NextConfig == ParseEnter \/ ParseInclude \/ ParseMerge \/ ParseFinish \/ GetLibPaths

(***************************************************************************)
(* Properties of the loader                                                *)
(***************************************************************************)

\* parse(args.template_conf) has returned conf to main
ParseReturned == cfg_pc \in {"done", "libs", "libfail"}

\* the root document and the i-th document read
RootDoc == cfg_docs[AbsPath(Cwd, cfg_root)]
DocRead(i) == cfg_docs[AbsPath(Cwd, cfg_log[i].path)]

Sets(d, key) == IsDict(d) /\ key \in DOMAIN d.v
ListOf(d, key) == IF Sets(d, key) /\ IsList(d.v[key]) THEN d.v[key].v ELSE <<>>

ScalarKeys == {"x", "y"}

\* the documents read that set key, and the one of them read last
Setters(key) == {i \in 1..Len(cfg_log) : Sets(DocRead(i), key)}
LastSetter(key) == CHOOSE i \in Setters(key) : \A j \in Setters(key) : j <= i

\* the include list of the root document, every entry expanded, in list order
TopIncludes ==
    LET entries == RootDoc.v["include"].v
    IN  Flatten([i \in 1..Len(entries) |->
            ParseFilePaths(FsView(cfg_fs),
                GetPath(Cwd, template_dir, entries[i].v, DirName(cfg_root))).paths])

\* the paths the root document's loop has handed to parse, in order
DirectReads ==
    LET direct == SelectSeqOf(cfg_log, {e \in FileSet(cfg_log) : e.depth = 2})
    IN  [i \in 1..Len(direct) |-> direct[i].path]

\* C7 as stated: a scalar key set by the including document and by an
\* included document has the including document's value in what parse
\* returns. (Fails: {x:2, y:3} including {x:1} gives x = 1.)
C7_IncluderWins ==
    ParseReturned =>
        \A key \in ScalarKeys :
            (Sets(RootDoc, key) /\ Setters(key) \ {1} # {})
            => cfg_out.v[key] = RootDoc.v[key]

\* C7 amended: a scalar key set by the including document and by an included
\* document has the included document's value in what parse returns: the
\* value of the document read last among those that set the key.
C7_IncludedWins ==
    ParseReturned =>
        \A key \in ScalarKeys :
            (Sets(RootDoc, key) /\ Setters(key) \ {1} # {})
            => /\ cfg_out.v[key] = DocRead(LastSetter(key)).v[key]
               /\ LastSetter(key) > 1

C7_Witness ==
    /\ ParseReturned
    /\ Len(cfg_log) = 2
    /\ RootDoc.v["x"] = YInt(2) /\ RootDoc.v["y"] = YInt(3)
    /\ Sets(DocRead(2), "x") /\ DocRead(2).v["x"] = YInt(1)
    /\ cfg_out.v["x"] = YInt(1)
    /\ cfg_out.v["y"] = YInt(3)

\* C8: parse merges the included documents in include-list order, every
\* include path spec expanded: the documents are read in that order, a
\* scalar key set by several included documents has the value of the one
\* read last, and the sequences of the documents are concatenated in the
\* order the documents are read.
C8_IncludeOrder ==
    (ParseReturned /\ Sets(RootDoc, "include")) =>
        /\ DirectReads = TopIncludes
        /\ \A key \in ScalarKeys :
              Setters(key) \ {1} # {} => cfg_out.v[key] = DocRead(LastSetter(key)).v[key]
        /\ cfg_out.v["l"].v = Flatten([i \in 1..Len(cfg_log) |-> ListOf(DocRead(i), "l")])

C8_Witness ==
    /\ ParseReturned
    /\ Len(DirectReads) = 2
    /\ DirectReads[1] # DirectReads[2]
    /\ \E i, j \in Setters("x") :
          /\ 1 < i /\ i < j
          /\ DocRead(i).v["x"] # DocRead(j).v["x"]
          /\ cfg_out.v["x"] = DocRead(j).v["x"]
    /\ Len(cfg_out.v["l"].v) >= 3

\* C9 as stated: once parse has resolved the includes, the document it
\* returns has no include key. (Fails: the key is never removed.)
C9_IncludeConsumed ==
    (ParseReturned /\ Sets(RootDoc, "include")) => ~Sets(cfg_out, "include")

\* C9 amended: the document parse returns has an include key exactly when
\* the root document declares one, and its value is then the include lists
\* of all the documents read, concatenated in the order they are read.
C9_IncludeKept ==
    ParseReturned =>
        /\ Sets(cfg_out, "include") <=> Sets(RootDoc, "include")
        /\ Sets(RootDoc, "include") =>
              cfg_out.v["include"].v =
                  Flatten([i \in 1..Len(cfg_log) |-> ListOf(DocRead(i), "include")])

C9_Witness ==
    /\ ParseReturned
    /\ Sets(RootDoc, "include")
    /\ Len(cfg_log) >= 3
    /\ Sets(cfg_out, "include")
    /\ Len(cfg_out.v["include"].v) > Len(RootDoc.v["include"].v)

\* C10 as stated: every document parse returns records the canonical path
\* of the root configuration file under template_configuration_file, also
\* when it declares no include, so that get_lib_paths can resolve lib.
\* (Fails: a document without include is returned as read, and
\* get_lib_paths raises KeyError when that document has a lib key.)
C10_PathRecorded ==
    /\ ParseReturned =>
          /\ Sets(cfg_out, "template_configuration_file")
          /\ cfg_out.v["template_configuration_file"] = YStr(RealPath(Cwd, cfg_root))
    /\ cfg_pc = "libfail" => cfg_err # "KeyError: 'template_configuration_file'"

\* the run of parse has ended, with a document or with an exception
ParseEnded == ParseReturned \/ cfg_pc = "failed"

\* the include key of the i-th document read is no sequence of strings
IncludeNotStrings(i) ==
    /\ Sets(DocRead(i), "include")
    /\ \/ ~IsList(DocRead(i).v["include"])
       \/ \E n \in 1..Len(DocRead(i).v["include"].v) :
             ~IsStr(DocRead(i).v["include"].v[n])

\* the include entries of the i-th document read that are strings
IncludeEntries(i) ==
    {e \in FileSet(ListOf(DocRead(i), "include")) : IsStr(e)}

\* what an include entry of the i-th document read expands to
EntryPaths(i, entry) ==
    ParseFilePaths(FsView(cfg_fs),
        GetPath(Cwd, template_dir, entry.v, DirName(cfg_log[i].path)))

\* an include entry of the i-th document read is a malformed path spec
IncludeBadSpec(i) == \E e \in IncludeEntries(i) : ~EntryPaths(i, e).ok

\* a path that an include entry of the i-th document read expands to is no
\* existing file
IncludeMissingFile(i) ==
    \E e \in IncludeEntries(i) :
        /\ EntryPaths(i, e).ok
        /\ \E n \in 1..Len(EntryPaths(i, e).paths) :
              ~OsIsFile(cfg_fs, EntryPaths(i, e).paths[n])

\* an include entry of the i-th document read expands to no existing file
IncludeResolvesToNothing(i) ==
    \E e \in IncludeEntries(i) :
        /\ EntryPaths(i, e).ok
        /\ \A n \in 1..Len(EntryPaths(i, e).paths) :
              ~OsIsFile(cfg_fs, EntryPaths(i, e).paths[n])

\* C11 as stated: parse fails, returning no document, whenever at any depth
\* an include key is no sequence of strings or an include entry does not
\* resolve to an existing file. (Fails: an entry whose glob matches nothing
\* resolves to no file and is skipped without an error.)
C11_UnresolvedIncludeFails ==
    (/\ ParseEnded
     /\ \E i \in 1..Len(cfg_log) :
           IncludeNotStrings(i) \/ IncludeMissingFile(i) \/ IncludeResolvesToNothing(i))
    => (cfg_pc = "failed" /\ cfg_out = NoValue)

\* C11 amended: parse fails, returning no document, whenever at any depth an
\* include key is no sequence of strings, an include entry is a malformed
\* path spec, or a path that an include entry expands to is no existing
\* file; an entry that expands to no path at all does not make it fail.
C11_BadIncludeFails ==
    (/\ ParseEnded
     /\ \E i \in 1..Len(cfg_log) :
           IncludeNotStrings(i) \/ IncludeBadSpec(i) \/ IncludeMissingFile(i))
    => (cfg_pc = "failed" /\ cfg_out = NoValue)

C11_Witness ==
    /\ cfg_pc = "failed"
    /\ cfg_out = NoValue
    /\ ~IncludeNotStrings(1) /\ ~IncludeBadSpec(1) /\ ~IncludeMissingFile(1)
    /\ \E i \in 2..Len(cfg_log) : IncludeMissingFile(i)

C11_WitnessNotStrings ==
    /\ cfg_pc = "failed"
    /\ \E i \in 2..Len(cfg_log) :
          Sets(DocRead(i), "include") /\ IsStr(DocRead(i).v["include"])

(***************************************************************************)
(* config.validate                                                         *)
(***************************************************************************)

\* a slip that forgets to look for the dst key
HasDst_Always(t) == TRUE

\* 'dst' in t
HasDst(t) == "dst" \in DOMAIN t.v

\* any(P(t) for t in L)
AnyOf(L, bad) == \E n \in 1..Len(L) : L[n] \in bad

\* config.validate(conf): what it raises, or that it returns
Validate(conf) ==
    LET files == conf.v["files"]
        lib   == conf.v["lib"]
    IN  IF "files" \in DOMAIN conf.v /\ ~IsList(files)
        THEN Fail("\"files\" key is not a list of specification dictionaries")
        ELSE IF "files" \in DOMAIN conf.v /\ AnyOf(files.v, {t \in FileSet(files.v) : ~IsDict(t)})
        THEN Fail("\"files\" key is not a list of specification dictionaries")
        ELSE IF "files" \in DOMAIN conf.v /\ AnyOf(files.v, {t \in FileSet(files.v) : ~HasDst(t)})
        THEN Fail("one or more \"files\" specifications do not specify the \"dst\" key")
        ELSE IF "lib" \in DOMAIN conf.v /\ ~IsList(lib)
        THEN Fail("\"lib\" key is not a list of file path specifications")
        ELSE IF "lib" \in DOMAIN conf.v /\ AnyOf(lib.v, {l \in FileSet(lib.v) : ~IsStr(l)})
        THEN Fail("\"lib\" key is not a list of file path specifications")
        ELSE Ok(<<>>)

(***************************************************************************)
(* The validator's specification: a configuration document is drawn, then  *)
(* validate is called on it.                                               *)
(***************************************************************************)

MaxItems == 2

\* what a files entry can be: a mapping with dst, one with src only, an empty
\* one, a string, a number, a list
FilesItems ==
    { YDict("dst" :> YStr(<<"a">>)),
      YDict(("dst" :> YStr(<<"a">>)) @@ ("src" :> YStr(<<"b">>))),
      YDict("src" :> YStr(<<"b">>)),
      YDict([key \in {} |-> NoValue]),
      YStr(<<"d", "s", "t">>),
      YInt(1),
      YList(<<YStr(<<"d", "s", "t">>)>>) }

LibItems == { YStr(<<"l">>), YInt(1), YList(<<>>) }

\* the files key: absent, a scalar, a mapping, or a list of entries
FilesValues ==
    { YStr(<<"a">>), YInt(1), YDict("dst" :> YStr(<<"a">>)) }
    \cup { YList(q) : q \in StringsUpTo(FilesItems, MaxItems) }

LibValues ==
    { YStr(<<"l">>), YDict("l" :> YStr(<<"l">>)) }
    \cup { YList(q) : q \in StringsUpTo(LibItems, MaxItems) }

ValidateConfs ==
    { YDict(("x" :> YInt(2)) @@ f @@ l) :
        f \in {[key \in {} |-> NoValue]} \cup {"files" :> v : v \in FilesValues},
        l \in {[key \in {} |-> NoValue]} \cup {"lib" :> v : v \in LibValues} }

InitValidate ==
    /\ vld_conf \in ValidateConfs
    /\ vld_before = vld_conf
    /\ vld_result = NoResult
    /\ vld_pc = "ready"

\* config.validate(conf): it reads conf and assigns nothing
CallValidate ==
    /\ vld_pc = "ready"
    /\ vld_result' = Validate(vld_conf)
    /\ vld_pc' = "done"
    /\ UNCHANGED <<vld_conf, vld_before>>
    /\ UNCHANGED other_than_vld

NextValidate == CallValidate

\* no call of validate is modelled
ValidateOff ==
    /\ vld_conf = NoValue
    /\ vld_before = NoValue
    /\ vld_result = NoResult
    /\ vld_pc = "off"

(***************************************************************************)
(* Properties of the validator                                             *)
(***************************************************************************)

\* files is no sequence of mappings each containing dst
BadFiles(conf) ==
    ~ (/\ IsList(conf.v["files"])
       /\ \A n \in 1..Len(conf.v["files"].v) :
             /\ IsDict(conf.v["files"].v[n])
             /\ "dst" \in DOMAIN conf.v["files"].v[n].v)

\* lib is no sequence of strings
BadLib(conf) ==
    ~ (/\ IsList(conf.v["lib"])
       /\ \A n \in 1..Len(conf.v["lib"].v) : IsStr(conf.v["lib"].v[n]))

\* C12: validate fails exactly when files is present and is no sequence of
\* mappings each containing dst, or lib is present and is no sequence of
\* strings; it accepts every other document, one without a files key
\* included, and leaves the document unchanged.
C12_ValidateExactly ==
    vld_pc = "done" =>
        /\ ~vld_result.ok <=>
              \/ Sets(vld_before, "files") /\ BadFiles(vld_before)
              \/ Sets(vld_before, "lib") /\ BadLib(vld_before)
        /\ vld_conf = vld_before

C12_Witness ==
    /\ vld_pc = "done"
    /\ Sets(vld_conf, "files") /\ IsList(vld_conf.v["files"])
    /\ Len(vld_conf.v["files"].v) = 2
    /\ \A n \in 1..2 : IsDict(vld_conf.v["files"].v[n])
    /\ "dst" \in DOMAIN vld_conf.v["files"].v[1].v
    /\ "dst" \notin DOMAIN vld_conf.v["files"].v[2].v
    /\ ~Sets(vld_conf, "lib")
    /\ ~vld_result.ok

C12_WitnessAccepts ==
    /\ vld_pc = "done"
    /\ ~Sets(vld_conf, "files")
    /\ Sets(vld_conf, "lib") /\ ~BadLib(vld_conf) /\ vld_conf.v["lib"].v # <<>>
    /\ vld_result.ok

(***************************************************************************)
(* config.compute_mapping                                                  *)
(*                                                                         *)
(* The loop `for spec in conf['files']` takes one step per FileSpec: the   *)
(* step appends the mappings of the FileSpec to `mapping`, or raises.      *)
(***************************************************************************)

YBool(v) == [k |-> "bool", v |-> v]

\* os.path.exists(path)
OsExists(files, path) ==
    AbsPath(Cwd, path) \in FileSet(files) \/ IsDir(files, AbsPath(Cwd, path))

\* [x for x in abspath(path).split(sep) if x]
PathList(path) ==
    LET parts == Split(AbsPath(Cwd, path), "/")
    IN  SelectSeqOf(parts, FileSet(parts) \ {<<>>})

\* len(commonprefix([start_list, path_list]))
RECURSIVE CommonLen(_, _)
CommonLen(l1, l2) ==
    IF l1 = <<>> \/ l2 = <<>> \/ Head(l1) # Head(l2) THEN 0
    ELSE 1 + CommonLen(Tail(l1), Tail(l2))

\* os.path.relpath(path, start)
RelPath(path, start) ==
    LET start_list == PathList(start)
        path_list  == PathList(path)
        i          == CommonLen(start_list, path_list)
        rel_list   == [n \in 1..(Len(start_list) - i) |-> <<".", ".">>]
                      \o SubSeq(path_list, i + 1, Len(path_list))
    IN  IF rel_list = <<>> THEN <<".">> ELSE JoinWith(rel_list, <<"/">>)

\* spec[key] if key in spec else default, for a string value
StrOr(spec, key, default) == IF key \in DOMAIN spec.v THEN spec.v[key].v ELSE default

\* spec['translate'] if 'translate' in spec else True
TranslateOf(spec) ==
    IF "translate" \in DOMAIN spec.v THEN spec.v["translate"] ELSE YBool(TRUE)

\* the locals spec_full_lnk and spec_rel_lnk before their first assignment
NoLnk == [set |-> FALSE, full |-> <<>>, rel |-> <<>>]
Lnk(full, rel) == [set |-> TRUE, full |-> full, rel |-> rel]

MapOk(maps, lnk) == [ok |-> TRUE, maps |-> maps, lnk |-> lnk, err |-> ""]
MapFail(err) == [ok |-> FALSE, maps |-> <<>>, lnk |-> NoLnk, err |-> err]

\* a slip that takes every expanded path for an existing one
Missing_None(files, paths) == {}

\* the expanded source paths that do not exist
Missing(files, paths) == {n \in 1..Len(paths) : ~OsExists(files, paths[n])}

\* a slip that lets a symlink go with any number of sources
SymlinkRefused_Never(spec, srcs) == FALSE

\* `if 'symlink' in spec: if len(spec_full_srcs) > 1: raise`
SymlinkRefused(spec, srcs) == "symlink" \in DOMAIN spec.v /\ Len(srcs) > 1

\* a slip that gives each source the destination of its own name
SrcMapDst_PerSource(full_dst, full_src) == full_src

\* 'full_dst': spec_full_dst, for every source of a FileSpec with src
SrcMapDst(full_dst, full_src) == full_dst

\* a slip that keeps the full source path for the relative destination
DstRelDst_Full(rel_src, full_src) == full_src

\* spec_rel_dsts = spec_rel_srcs
DstRelDst(rel_src, full_src) == rel_src

\* the dictionary appended to mapping (lines 68-80 and 105-117)
MapRecord(spec, full_dst, full_src, full_wrk, rel_dst, rel_src, lnk) ==
    [chmod     |-> StrOr(spec, "chmod", <<>>),
     chown     |-> StrOr(spec, "chown", <<>>),
     dst_key   |-> spec.v["dst"].v,
     full_dst  |-> full_dst,
     full_lnk  |-> lnk.full,
     full_src  |-> full_src,
     full_wrk  |-> full_wrk,
     rel_dst   |-> rel_dst,
     rel_lnk   |-> lnk.rel,
     rel_src   |-> rel_src,
     translate |-> TranslateOf(spec)]

\* spec_full_lnk and spec_rel_lnk of a FileSpec with src: '' without symlink;
\* with symlink, lines 62-63 follow the raise of line 61 and never run, so
\* the locals keep what an earlier turn of the loop left in them
SrcLnk(spec, lnk) == IF "symlink" \in DOMAIN spec.v THEN lnk ELSE Lnk(<<>>, <<>>)

\* the mappings of a FileSpec with src, its one destination being full_dst
SrcMaps(spec, tdir, wrk, srcs, full_dst, rel_dst, lnk) ==
    [n \in 1..Len(srcs) |->
        MapRecord(spec, SrcMapDst(full_dst, srcs[n]), srcs[n], PathJoin(wrk, rel_dst),
                  rel_dst, RelPath(srcs[n], tdir), lnk)]

\* lines 42-80, srcs and dsts being the outcomes of the two parse_file_paths
SrcOutcome(files, tdir, out, wrk, spec, lnk, srcs, dsts) ==
    IF ~srcs.ok
    THEN MapFail("unable to compute template source path mapping")
    ELSE IF srcs.paths = <<>>
    THEN MapFail("\"src\" does not resolve to any valid source paths")
    ELSE IF Missing(files, srcs.paths) # {}
    THEN MapFail("does not correspond to a path to an existing file")
    ELSE IF ~dsts.ok
    THEN MapFail("unable to compute template destination path mapping")
    ELSE IF dsts.paths = <<>>
    THEN MapFail("\"dst\" does not resolve to any valid destination paths")
    ELSE IF Len(dsts.paths) > 1
    THEN MapFail("\"dst\" cannot contain expansion expressions if \"src\" is specified")
    ELSE IF SymlinkRefused(spec, srcs.paths)
    THEN MapFail("\"symlink\" cannot be specified if \"src\" contains expansion expressions")
    ELSE IF ~lnk.set
    THEN MapFail("UnboundLocalError: spec_full_lnk")
    ELSE MapOk(SrcMaps(spec, tdir, wrk, srcs.paths, dsts.paths[1],
                       RelPath(dsts.paths[1], out), lnk),
               lnk)

\* the branch of a FileSpec with src (lines 36-80)
SrcBranch(files, tdir, out, wrk, spec, lnk) ==
    SrcOutcome(files, tdir, out, wrk, spec, SrcLnk(spec, lnk),
               ParseFilePaths(FsView(files), GetPath(Cwd, tdir, spec.v["src"].v, <<>>)),
               ParseFilePaths(FsView(files), GetPath(Cwd, tdir, spec.v["dst"].v, out)))

\* spec_full_lnk and spec_rel_lnk, given utils.get_path(spec['symlink'], output_dir)
LnkOf(full_lnk, out) == Lnk(full_lnk, RelPath(full_lnk, out))

\* spec_full_lnk and spec_rel_lnk of a FileSpec without src (lines 96-103)
DstLnk(spec, tdir, out) ==
    IF "symlink" \in DOMAIN spec.v
    THEN LnkOf(GetPath(Cwd, tdir, spec.v["symlink"].v, out), out)
    ELSE Lnk(<<>>, <<>>)

\* the mapping of one source of a FileSpec without src
DstMap(spec, out, wrk, full_src, rel_dst, rel_src, lnk) ==
    MapRecord(spec, PathJoin(out, rel_dst), full_src, PathJoin(wrk, rel_dst),
              rel_dst, rel_src, lnk)

\* the mapping of one source, given its spec_rel_srcs entry
DstMapOf(spec, out, wrk, full_src, rel_src, lnk) ==
    DstMap(spec, out, wrk, full_src, DstRelDst(rel_src, full_src), rel_src, lnk)

\* a slip that gives every mapping the relative path of the first source
DstMaps_First(spec, tdir, out, wrk, srcs, lnk) ==
    [n \in 1..Len(srcs) |->
        DstMapOf(spec, out, wrk, srcs[n], RelPath(srcs[1], tdir), lnk)]

\* the mappings of a FileSpec without src
DstMaps(spec, tdir, out, wrk, srcs, lnk) ==
    [n \in 1..Len(srcs) |->
        DstMapOf(spec, out, wrk, srcs[n], RelPath(srcs[n], tdir), lnk)]

\* lines 87-117, srcs being the outcome of parse_file_paths
DstOutcome(files, tdir, out, wrk, spec, srcs) ==
    IF ~srcs.ok
    THEN MapFail("unable to compute template source path mapping")
    ELSE IF srcs.paths = <<>>
    THEN MapFail("\"dst\" does not resolve to any valid source paths")
    ELSE IF Missing(files, srcs.paths) # {}
    THEN MapFail("unable to compute template source path mapping")
    ELSE IF SymlinkRefused(spec, srcs.paths)
    THEN MapFail("\"symlink\" cannot be specified if \"dst\" contains expansion expressions")
    ELSE MapOk(DstMaps(spec, tdir, out, wrk, srcs.paths, DstLnk(spec, tdir, out)),
               DstLnk(spec, tdir, out))

\* the branch of a FileSpec without src (lines 81-117)
DstBranch(files, tdir, out, wrk, spec, lnk) ==
    DstOutcome(files, tdir, out, wrk, spec,
               ParseFilePaths(FsView(files), GetPath(Cwd, tdir, spec.v["dst"].v, <<>>)))

\* conf['files']
FileSpecs == map_conf.v["files"].v

\* one turn of the loop has computed r
MapStep(r) ==
    IF r.ok
    THEN /\ mapping' = mapping \o r.maps
         /\ map_owner' = map_owner \o [n \in 1..Len(r.maps) |-> map_i + 1]
         /\ map_lnk' = r.lnk
         /\ map_i' = map_i + 1
         /\ UNCHANGED <<map_pc, map_err>>
    ELSE /\ map_pc' = "failed"
         /\ map_err' = r.err
         /\ mapping' = <<>>
         /\ map_owner' = <<>>
         /\ UNCHANGED <<map_lnk, map_i>>

\* a turn of the loop for a FileSpec with src
MapSrcSpec ==
    /\ map_pc = "mapping"
    /\ "files" \in DOMAIN map_conf.v
    /\ map_i < Len(FileSpecs)
    /\ "src" \in DOMAIN FileSpecs[map_i + 1].v
    /\ MapStep(SrcBranch(map_fs, map_tdir, output_dir, working_dir,
                         FileSpecs[map_i + 1], map_lnk))
    /\ UNCHANGED <<map_fs, map_conf, map_before, map_tdir, output_dir, working_dir,
                   tt_i, tt_todo, tt_log>>
    /\ UNCHANGED other_than_map

\* a turn of the loop for a FileSpec without src
MapDstSpec ==
    /\ map_pc = "mapping"
    /\ "files" \in DOMAIN map_conf.v
    /\ map_i < Len(FileSpecs)
    /\ "src" \notin DOMAIN FileSpecs[map_i + 1].v
    /\ MapStep(DstBranch(map_fs, map_tdir, output_dir, working_dir,
                         FileSpecs[map_i + 1], map_lnk))
    /\ UNCHANGED <<map_fs, map_conf, map_before, map_tdir, output_dir, working_dir,
                   tt_i, tt_todo, tt_log>>
    /\ UNCHANGED other_than_map

\* `for spec in conf['files']` on a document without files: KeyError
MapNoFiles ==
    /\ map_pc = "mapping"
    /\ "files" \notin DOMAIN map_conf.v
    /\ map_pc' = "failed"
    /\ map_err' = "KeyError: 'files'"
    /\ UNCHANGED <<map_fs, map_conf, map_before, map_tdir, output_dir, working_dir,
                   map_i, mapping, map_owner, map_lnk, tt_i, tt_todo, tt_log>>
    /\ UNCHANGED other_than_map

\* `return mapping`; main goes on to translate_templates
MapReturn ==
    /\ map_pc = "mapping"
    /\ "files" \in DOMAIN map_conf.v
    /\ map_i = Len(FileSpecs)
    /\ map_pc' = "translating"
    /\ UNCHANGED <<map_fs, map_conf, map_before, map_tdir, output_dir, working_dir,
                   map_i, mapping, map_owner, map_lnk, map_err, tt_i, tt_todo, tt_log>>
    /\ UNCHANGED other_than_map

(***************************************************************************)
(* translate_templates                                                     *)
(*                                                                         *)
(* The outer loop `for spec in conf['files']` selects spec_maps, the inner *)
(* loop renders or copies one element of spec_maps per step.  tt_log keeps *)
(* what each step did: the mapping it handled, the context it rendered     *)
(* with and the index of the FileSpec the outer loop was at.               *)
(***************************************************************************)

\* os.path.basename
BaseName(path) == PathSplit(path).tail

\* [m for m in mapping if m['dst_key'] == spec['dst']], as indices of mapping
SpecMaps(maps, spec) ==
    SelectSeqOf([n \in 1..Len(maps) |-> n],
                {n \in 1..Len(maps) : maps[n].dst_key = spec.v["dst"].v})

\* aug = conf.copy(); aug['file'] = ...; aug['this'] = spec
Augmented(conf, spec_map, spec) ==
    YDict([key \in DOMAIN conf.v \cup {"file", "this"} |->
              IF key = "file" THEN YStr(BaseName(spec_map.rel_dst))
              ELSE IF key = "this" THEN spec
              ELSE conf.v[key]])

\* a slip that augments conf itself (aug = conf)
ConfAfterAugment_Aliased(conf, aug) == aug

\* conf after the assignments to aug, which is a copy of it
ConfAfterAugment(conf, aug) == conf

\* the outer loop takes the next FileSpec and selects its spec_maps
TranslateSpec ==
    /\ map_pc = "translating"
    /\ tt_todo = <<>>
    /\ tt_i < Len(FileSpecs)
    /\ tt_i' = tt_i + 1
    /\ tt_todo' = SpecMaps(mapping, FileSpecs[tt_i + 1])
    /\ UNCHANGED <<map_fs, map_conf, map_before, map_tdir, output_dir, working_dir,
                   map_i, mapping, map_owner, map_lnk, map_pc, map_err, tt_log>>
    /\ UNCHANGED other_than_map

\* `if spec_map['translate']`: the template is rendered with aug
TranslateRender ==
    /\ map_pc = "translating"
    /\ tt_todo # <<>>
    /\ mapping[Head(tt_todo)].translate.v
    /\ LET aug == Augmented(map_conf, mapping[Head(tt_todo)], FileSpecs[tt_i])
       IN  /\ tt_log' = Append(tt_log, [map |-> Head(tt_todo), kind |-> "render",
                                        ctx |-> aug, by |-> tt_i])
           /\ map_conf' = ConfAfterAugment(map_conf, aug)
    /\ tt_todo' = Tail(tt_todo)
    /\ UNCHANGED <<map_fs, map_before, map_tdir, output_dir, working_dir,
                   map_i, mapping, map_owner, map_lnk, map_pc, map_err, tt_i>>
    /\ UNCHANGED other_than_map

\* `else`: the source is copied as it is
TranslateCopy ==
    /\ map_pc = "translating"
    /\ tt_todo # <<>>
    /\ ~mapping[Head(tt_todo)].translate.v
    /\ tt_log' = Append(tt_log, [map |-> Head(tt_todo), kind |-> "copy",
                                 ctx |-> NoValue, by |-> tt_i])
    /\ tt_todo' = Tail(tt_todo)
    /\ UNCHANGED <<map_fs, map_conf, map_before, map_tdir, output_dir, working_dir,
                   map_i, mapping, map_owner, map_lnk, map_pc, map_err, tt_i>>
    /\ UNCHANGED other_than_map

\* translate_templates returns
TranslateDone ==
    /\ map_pc = "translating"
    /\ tt_todo = <<>>
    /\ tt_i = Len(FileSpecs)
    /\ map_pc' = "translated"
    /\ UNCHANGED <<map_fs, map_conf, map_before, map_tdir, output_dir, working_dir,
                   map_i, mapping, map_owner, map_lnk, map_err, tt_i, tt_todo, tt_log>>
    /\ UNCHANGED other_than_map

(***************************************************************************)
(* The runs of compute_mapping and translate_templates that are checked    *)
(***************************************************************************)

\* the longest conf['files']
MaxSpecs == 2

\* the templates /c/t/a, a1, a2 and b, and the file /c/x beside the template
\* directory
MapFiles ==
    << <<"/", "c", "/", "t", "/", "a">>,
       <<"/", "c", "/", "t", "/", "a", "1">>,
       <<"/", "c", "/", "t", "/", "a", "2">>,
       <<"/", "c", "/", "t", "/", "b">>,
       <<"/", "c", "/", "x">> >>

\* utils.TEMPLATE_DIR as validate_environment returns it: relative or absolute
TemplateDirs == { <<"t">>, <<"/", "c", "/", "t">> }

OutputDir == <<"/", "o">>
WorkingDir == <<"/", "w">>

A12 == <<"a", "[", "1", ",", "2", "]">>
Z12 == <<"z", "[", "1", ",", "2", "]">>

\* FileSpecs without src
BareSpecs ==
    { YDict("dst" :> YStr(<<"a">>)),
      YDict("dst" :> YStr(A12)),
      YDict("dst" :> YStr(<<"a", "[", "1", ",", "1", "]">>)),
      YDict("dst" :> YStr(A12) @@ "symlink" :> YStr(<<"s">>)),
      YDict("dst" :> YStr(<<"a">>) @@ "symlink" :> YStr(<<"s">>)),
      YDict("dst" :> YStr(<<"m">>)),
      YDict("dst" :> YStr(<<"m", "*">>)),
      YDict("dst" :> YStr(<<".", ".", "/", "x">>)),
      YDict("dst" :> YStr(<<"a">>) @@ "translate" :> YBool(FALSE)) }

\* FileSpecs with src
SrcSpecs ==
    { YDict("src" :> YStr(<<"a">>) @@ "dst" :> YStr(<<"z">>)),
      YDict("src" :> YStr(A12) @@ "dst" :> YStr(<<"z">>)),
      YDict("src" :> YStr(<<"a">>) @@ "dst" :> YStr(Z12)),
      YDict("src" :> YStr(A12) @@ "dst" :> YStr(<<"z">>) @@ "symlink" :> YStr(<<"s">>)),
      YDict("src" :> YStr(<<"a">>) @@ "dst" :> YStr(<<"z">>) @@ "symlink" :> YStr(<<"s">>)),
      YDict("src" :> YStr(<<"m">>) @@ "dst" :> YStr(<<"z">>)),
      YDict("src" :> YStr(<<"m", "*">>) @@ "dst" :> YStr(<<"z">>)),
      YDict("src" :> YStr(<<"a">>) @@ "dst" :> YStr(<<"/", "q", "/", "z">>)),
      YDict("src" :> YStr(<<"b">>) @@ "dst" :> YStr(<<"a">>)) }

\* the values of conf['files']
FileSpecLists ==
    UNION {[1..n -> BareSpecs \cup SrcSpecs] : n \in 0..MaxSpecs}

\* the configuration documents, all accepted by config.validate: files
\* alone, files with a `file` key of their own, and documents without files
MapConfs ==
    {YDict("files" :> YList(L)) : L \in FileSpecLists}
    \cup {YDict("files" :> YList(L) @@ "file" :> YStr(<<"x">>)) : L \in FileSpecLists}
    \cup {YDict("file" :> YStr(<<"x">>)), YDict("lib" :> YList(<<>>))}

InitMapping ==
    /\ map_fs = MapFiles
    /\ map_conf \in MapConfs
    /\ map_before = map_conf
    /\ map_tdir \in TemplateDirs
    /\ output_dir = OutputDir
    /\ working_dir = WorkingDir
    /\ map_i = 0
    /\ mapping = <<>>
    /\ map_owner = <<>>
    /\ map_lnk = NoLnk
    /\ map_pc = "mapping"
    /\ map_err = ""
    /\ tt_i = 0
    /\ tt_todo = <<>>
    /\ tt_log = <<>>

NextMapping ==
    \/ MapSrcSpec
    \/ MapDstSpec
    \/ MapNoFiles
    \/ MapReturn
    \/ TranslateSpec
    \/ TranslateRender
    \/ TranslateCopy
    \/ TranslateDone

\* no run of compute_mapping in this specification
MappingOff ==
    /\ map_fs = <<>>
    /\ map_conf = NoValue
    /\ map_before = NoValue
    /\ map_tdir = <<>>
    /\ output_dir = <<>>
    /\ working_dir = <<>>
    /\ map_i = 0
    /\ mapping = <<>>
    /\ map_owner = <<>>
    /\ map_lnk = NoLnk
    /\ map_pc = "off"
    /\ map_err = ""
    /\ tt_i = 0
    /\ tt_todo = <<>>
    /\ tt_log = <<>>

(***************************************************************************)
(* Properties of compute_mapping                                           *)
(***************************************************************************)

\* compute_mapping has returned its list
MapReturned == map_pc \in {"translating", "translated"}

\* compute_mapping has raised
MapFailed == map_pc = "failed"

\* the FileSpecs as compute_mapping received them
SpecsBefore ==
    IF "files" \in DOMAIN map_before.v THEN map_before.v["files"].v ELSE <<>>

\* the mappings of the j-th FileSpec, in the order of the returned list
MapsOf(j) ==
    LET own == SelectSeqOf([n \in 1..Len(mapping) |-> n],
                           {n \in 1..Len(mapping) : map_owner[n] = j})
    IN  [n \in 1..Len(own) |-> mapping[own[n]]]

\* the source paths a FileSpec expands to: those of src, or of dst without src
SourcesOf(spec) ==
    ParseFilePaths(FsView(map_fs),
                   GetPath(Cwd, map_tdir,
                           IF "src" \in DOMAIN spec.v THEN spec.v["src"].v
                           ELSE spec.v["dst"].v,
                           <<>>))

\* the expansion syntax of parse_file_paths
ExpansionChars == {"[", "]", "*", "?"}
IsPlain(str) == \A n \in 1..Len(str) : str[n] \notin ExpansionChars

C13_WitnessPlain ==
    /\ MapReturned
    /\ \E j \in 1..Len(SpecsBefore) :
          /\ SpecsBefore[j] = YDict("dst" :> YStr(<<"a">>))
          /\ MapsOf(j) # <<>>
          /\ MapsOf(j)[1].rel_dst = <<"a">>
          /\ MapsOf(j)[1].translate = YBool(TRUE)

\* the destination paths the dst of a FileSpec with src expands to
DstsOf(spec) ==
    ParseFilePaths(FsView(map_fs), GetPath(Cwd, map_tdir, spec.v["dst"].v, output_dir))

\* the j-th FileSpec has src
SrcSpecAt(j) ==
    /\ j \in 1..Len(SpecsBefore)
    /\ "src" \in DOMAIN SpecsBefore[j].v

\* C14: compute_mapping does not return when the dst of a FileSpec with src
\* expands to more than one path; when it returns, a FileSpec with src has
\* one mapping per expanded source path, in expansion order, and all of them
\* share full_dst, full_wrk and rel_dst.
C14_SrcFanIn ==
    \A j \in 1..Len(SpecsBefore) :
        SrcSpecAt(j) =>
            LET spec == SpecsBefore[j]
                srcs == SourcesOf(spec).paths
                dsts == DstsOf(spec)
                maps == MapsOf(j)
            IN  /\ (dsts.ok /\ Len(dsts.paths) > 1) => ~MapReturned
                /\ MapReturned =>
                      /\ Len(maps) = Len(srcs)
                      /\ \A i \in 1..Len(maps) :
                            /\ maps[i].full_src = srcs[i]
                            /\ maps[i].full_dst = dsts.paths[1]
                            /\ maps[i].rel_dst = RelPath(dsts.paths[1], output_dir)
                            /\ maps[i].full_wrk = PathJoin(working_dir, maps[i].rel_dst)

\* a returned run where two sources of one FileSpec share one destination
C14_Witness ==
    /\ MapReturned
    /\ \E j \in 1..Len(SpecsBefore) :
          /\ SrcSpecAt(j)
          /\ Len(MapsOf(j)) = 2
          /\ MapsOf(j)[1].full_src # MapsOf(j)[2].full_src
          /\ MapsOf(j)[1].full_dst = <<"/", "o", "/", "z">>
          /\ MapsOf(j)[2].full_dst = <<"/", "o", "/", "z">>

\* a run that failed at a FileSpec with src whose dst expands to two paths
C14_WitnessFails ==
    /\ MapFailed
    /\ SrcSpecAt(map_i + 1)
    /\ Len(DstsOf(SpecsBefore[map_i + 1]).paths) = 2
    /\ map_err = "\"dst\" cannot contain expansion expressions if \"src\" is specified"

\* the j-th FileSpec declares symlink and its source expansion (of src, or of
\* dst without src) yields more than one path
SymlinkFanOut(j) ==
    /\ "symlink" \in DOMAIN SpecsBefore[j].v
    /\ SourcesOf(SpecsBefore[j]).ok
    /\ Len(SourcesOf(SpecsBefore[j]).paths) > 1

\* C15: the loop of compute_mapping never gets past a FileSpec that declares
\* symlink and has more than one source path: the call does not return, and
\* once it has raised there is no mapping list.
C15_SymlinkFanOutFails ==
    \A j \in 1..Len(SpecsBefore) :
        SymlinkFanOut(j) =>
            /\ map_i < j
            /\ ~MapReturned
            /\ MapFailed => mapping = <<>>

\* a run that failed at a FileSpec with src, symlink and two sources
C15_Witness ==
    /\ MapFailed
    /\ SrcSpecAt(map_i + 1)
    /\ SymlinkFanOut(map_i + 1)
    /\ map_err = "\"symlink\" cannot be specified if \"src\" contains expansion expressions"
    /\ mapping = <<>>

\* a run that failed at a FileSpec without src, with symlink and two sources
C15_WitnessBareDst ==
    /\ MapFailed
    /\ ~SrcSpecAt(map_i + 1)
    /\ SymlinkFanOut(map_i + 1)
    /\ map_err = "\"symlink\" cannot be specified if \"dst\" contains expansion expressions"
    /\ mapping = <<>>

\* the source spec of the j-th FileSpec expands to no path, or to a path that
\* does not exist
NoSource(j) ==
    /\ SourcesOf(SpecsBefore[j]).ok
    /\ \/ SourcesOf(SpecsBefore[j]).paths = <<>>
       \/ \E n \in 1..Len(SourcesOf(SpecsBefore[j]).paths) :
             ~OsExists(map_fs, SourcesOf(SpecsBefore[j]).paths[n])

\* C16: the loop of compute_mapping never gets past a FileSpec whose source
\* spec expands to zero paths or to a path that does not exist, with src or
\* without: the call does not return, and once it has raised there is no
\* mapping list, the mappings of earlier FileSpecs included.
C16_NoSourceFails ==
    \A j \in 1..Len(SpecsBefore) :
        NoSource(j) =>
            /\ map_i < j
            /\ ~MapReturned
            /\ MapFailed => mapping = <<>>

\* a run that failed at its second FileSpec, which has src and a source path
\* that does not exist, after the first FileSpec was mapped
C16_Witness ==
    /\ MapFailed
    /\ map_i = 1
    /\ SrcSpecAt(2)
    /\ NoSource(2)
    /\ SourcesOf(SpecsBefore[2]).paths # <<>>
    /\ mapping = <<>>

\* a run that failed at a FileSpec without src whose dst expands to no path
C16_WitnessBareDst ==
    /\ MapFailed
    /\ ~SrcSpecAt(map_i + 1)
    /\ SourcesOf(SpecsBefore[map_i + 1]).paths = <<>>
    /\ mapping = <<>>

\* path, once normalised, names a location below the directory root
LiesUnder(path, root) == Under(NormPath(path), NormPath(root))

\* C17: for every mapping compute_mapping returns, full_dst lies under the
\* output root and full_wrk under the working root, and full_wrk relative to
\* the working root is full_dst relative to the output root, whatever dst is
\* (absolute, or with '..').
C17_UnderRoots ==
    MapReturned =>
        \A n \in 1..Len(mapping) :
            /\ LiesUnder(mapping[n].full_dst, output_dir)
            /\ LiesUnder(mapping[n].full_wrk, working_dir)
            /\ RelPath(mapping[n].full_wrk, working_dir)
                   = RelPath(mapping[n].full_dst, output_dir)

\* the part of C17 the code keeps: the two relative paths are the same
C17_Mirrors ==
    MapReturned =>
        \A n \in 1..Len(mapping) :
            RelPath(mapping[n].full_wrk, working_dir)
                = RelPath(mapping[n].full_dst, output_dir)

\* a returned mapping for the absolute dst /q/z: full_dst is /q/z, and
\* full_wrk, /w/../q/z, is the same file
C17_WitnessAbsolute ==
    /\ MapReturned
    /\ \E n \in 1..Len(mapping) :
          /\ mapping[n].dst_key = <<"/", "q", "/", "z">>
          /\ mapping[n].full_dst = <<"/", "q", "/", "z">>
          /\ NormPath(mapping[n].full_wrk) = <<"/", "q", "/", "z">>

\* a returned mapping for the dst ../x: full_dst is /o/../x
C17_WitnessDotDot ==
    /\ MapReturned
    /\ \E n \in 1..Len(mapping) :
          /\ mapping[n].dst_key = <<".", ".", "/", "x">>
          /\ mapping[n].full_dst = <<"/", "o", "/", ".", ".", "/", "x">>
          /\ ~LiesUnder(mapping[n].full_dst, output_dir)

\* the relative destination paths the dst of the j-th FileSpec expands to:
\* relative to the output root with src, to the template root without
DstRelPaths(j) ==
    LET spec == SpecsBefore[j]
    IN  IF "src" \in DOMAIN spec.v
        THEN [n \in 1..Len(DstsOf(spec).paths) |->
                 RelPath(DstsOf(spec).paths[n], output_dir)]
        ELSE [n \in 1..Len(SourcesOf(spec).paths) |->
                 RelPath(SourcesOf(spec).paths[n], map_tdir)]

\* no two FileSpecs have dst specs that expand to a common path
NoOverlap ==
    \A j, k \in 1..Len(SpecsBefore) :
        j # k => FileSet(DstRelPaths(j)) \cap FileSet(DstRelPaths(k)) = {}

\* no two mappings of the returned list have the same rel_dst
RelDstUnique ==
    \A m, n \in 1..Len(mapping) : m # n => mapping[m].rel_dst # mapping[n].rel_dst

\* no FileSpec with src has more than one source path
NoFanIn ==
    \A j \in 1..Len(SpecsBefore) :
        SrcSpecAt(j) => Len(SourcesOf(SpecsBefore[j]).paths) <= 1

\* no dst spec expands to the same path twice
NoRepeat ==
    \A j \in 1..Len(SpecsBefore) :
        Cardinality(FileSet(DstRelPaths(j))) = Len(DstRelPaths(j))

\* C18 as stated: when no two FileSpecs have dst specs that expand to a
\* common path, rel_dst is unique across the mappings compute_mapping returns.
C18_UniqueWithoutOverlap ==
    (MapReturned /\ NoOverlap) => RelDstUnique

\* C18, amended: when no two FileSpecs have dst specs that expand to a common
\* path, no FileSpec with src has more than one source path and no dst spec
\* expands to the same path twice, rel_dst is unique across the mappings
\* compute_mapping returns.
C18_UniqueWithoutFanIn ==
    (MapReturned /\ NoOverlap /\ NoFanIn /\ NoRepeat) => RelDstUnique

\* a returned run of two FileSpecs, three mappings, all rel_dst different
C18_Witness ==
    /\ MapReturned
    /\ NoOverlap /\ NoFanIn /\ NoRepeat
    /\ Len(SpecsBefore) = 2
    /\ Len(mapping) = 3
    /\ RelDstUnique

\* a returned run of one FileSpec with src whose two mappings share rel_dst
C18_WitnessFanIn ==
    /\ MapReturned
    /\ Len(SpecsBefore) = 1
    /\ SrcSpecAt(1)
    /\ Len(mapping) = 2
    /\ mapping[1].rel_dst = mapping[2].rel_dst

\* a returned run of one FileSpec without src whose dst names one path twice
C18_WitnessRepeat ==
    /\ MapReturned
    /\ Len(SpecsBefore) = 1
    /\ ~SrcSpecAt(1)
    /\ Len(mapping) = 2
    /\ mapping[1].rel_dst = mapping[2].rel_dst

(***************************************************************************)
(* The link path of a mapping                                              *)
(***************************************************************************)

\* the FileSpec that produced the n-th mapping
MapOwner(n) == SpecsBefore[map_owner[n]]

\* full_lnk as the FileSpec declares it: symlink resolved against the output
\* root, '' without symlink
DeclaredLnk(spec) ==
    IF "symlink" \in DOMAIN spec.v
    THEN GetPath(Cwd, map_tdir, spec.v["symlink"].v, output_dir)
    ELSE <<>>

\* C26: for every mapping compute_mapping returns, full_lnk is the symlink of
\* the owning FileSpec resolved against the output root when it declares
\* one, and the empty string otherwise, with src as well as without, whatever
\* FileSpecs come before it.
C26_LinkPath ==
    MapReturned =>
        \A n \in 1..Len(mapping) : mapping[n].full_lnk = DeclaredLnk(MapOwner(n))

\* what the code keeps of C26: the mappings of FileSpecs without src, and
\* those of FileSpecs without symlink
C26_LinkPathBareDst ==
    MapReturned =>
        \A n \in 1..Len(mapping) :
            ("src" \notin DOMAIN MapOwner(n).v \/ "symlink" \notin DOMAIN MapOwner(n).v)
                => mapping[n].full_lnk = DeclaredLnk(MapOwner(n))

\* a returned mapping of a FileSpec with src and symlink whose full_lnk is ''
C26_WitnessEmpty ==
    /\ MapReturned
    /\ \E n \in 1..Len(mapping) :
          /\ "src" \in DOMAIN MapOwner(n).v
          /\ "symlink" \in DOMAIN MapOwner(n).v
          /\ mapping[n].full_lnk = <<>>

\* a run that failed at a first FileSpec with src, symlink and one source,
\* spec_full_lnk never having been assigned
C26_WitnessUnbound ==
    /\ MapFailed
    /\ map_i = 0
    /\ SrcSpecAt(1)
    /\ "symlink" \in DOMAIN SpecsBefore[1].v
    /\ Len(SourcesOf(SpecsBefore[1]).paths) = 1
    /\ map_err = "UnboundLocalError: spec_full_lnk"

(***************************************************************************)
(* Properties of translate_templates                                       *)
(***************************************************************************)

\* the steps of tt_log that rendered a template
Renders == {n \in 1..Len(tt_log) : tt_log[n].kind = "render"}

\* the FileSpec that produced the mapping the n-th step handled
OwnerOf(n) == SpecsBefore[map_owner[tt_log[n].map]]

\* C19: whenever translate_templates renders a mapping, the context is the
\* base configuration plus file = basename of the mapping's rel_dst and
\* this = the FileSpec that produced the mapping, also when several FileSpecs
\* carry the same dst string.
C19_RenderContext ==
    \A n \in Renders :
        tt_log[n].ctx = Augmented(map_before, mapping[tt_log[n].map], OwnerOf(n))

\* no two FileSpecs carry the same dst string
DistinctDst ==
    \A j, k \in 1..Len(SpecsBefore) :
        j # k => SpecsBefore[j].v["dst"] # SpecsBefore[k].v["dst"]

\* what the code keeps of C19: with pairwise different dst strings every
\* mapping is handled once, in the turn of its own FileSpec
C19_RenderContextDistinctDst ==
    DistinctDst =>
        /\ C19_RenderContext
        /\ \A m, n \in 1..Len(tt_log) : m # n => tt_log[m].map # tt_log[n].map

\* a template rendered with `this` bound to a FileSpec that did not produce
\* its mapping
C19_WitnessWrongThis ==
    \E n \in Renders :
        /\ tt_log[n].ctx.v["this"] # OwnerOf(n)
        /\ tt_log[n].ctx.v["this"].v["dst"] = OwnerOf(n).v["dst"]

\* a mapping handled twice, once for each FileSpec with its dst string
C19_WitnessTwice ==
    \E m, n \in 1..Len(tt_log) : m # n /\ tt_log[m].map = tt_log[n].map

\* C20: the augmentation never changes the shared configuration document: it
\* has the keys and values it had before, whatever has been rendered, and
\* each context differs from it in file and this alone, which are those of
\* the mapping and the FileSpec of that very step.
C20_ConfNotMutated ==
    /\ map_pc \in {"translating", "translated"} => map_conf = map_before
    /\ \A n \in Renders :
          /\ \A key \in DOMAIN map_before.v \ {"file", "this"} :
                tt_log[n].ctx.v[key] = map_before.v[key]
          /\ DOMAIN tt_log[n].ctx.v = DOMAIN map_before.v \cup {"file", "this"}
          /\ tt_log[n].ctx.v["file"] = YStr(BaseName(mapping[tt_log[n].map].rel_dst))
          /\ tt_log[n].ctx.v["this"] = SpecsBefore[tt_log[n].by]

\* translate_templates has returned after rendering two templates with
\* different `file`, and the shared document still has its own `file`
C20_Witness ==
    /\ map_pc = "translated"
    /\ "file" \in DOMAIN map_before.v
    /\ map_conf.v["file"] = YStr(<<"x">>)
    /\ "this" \notin DOMAIN map_conf.v
    /\ \E m, n \in Renders :
          /\ m < n
          /\ tt_log[m].ctx.v["file"] # tt_log[n].ctx.v["file"]
          /\ tt_log[m].ctx.v["file"] # map_conf.v["file"]

\* the mappings translate_templates has handled, in the order of handling
Handled == [n \in 1..Len(tt_log) |-> tt_log[n].map]

\* C27: translate_templates handles every mapping exactly once per run, in
\* the order of the list compute_mapping returned, also when two FileSpecs
\* have the same dst string.
C27_EachMappingOnce ==
    /\ map_pc = "translating" => Handled = [n \in 1..Len(tt_log) |-> n]
    /\ map_pc = "translated" => Handled = [n \in 1..Len(mapping) |-> n]

\* what the code keeps of C27: once and in order when dst strings differ
C27_OnceWithDistinctDst ==
    (DistinctDst /\ map_pc = "translated") => Handled = [n \in 1..Len(mapping) |-> n]

\* translate_templates has returned after handling two mappings twice each
C27_WitnessTwice ==
    /\ map_pc = "translated"
    /\ Len(mapping) = 2
    /\ Handled = <<1, 2, 1, 2>>

\* translate_templates has returned after handling three mappings once each
C27_WitnessOnce ==
    /\ map_pc = "translated"
    /\ DistinctDst
    /\ Handled = <<1, 2, 3>>

(***************************************************************************)
(* Validated documents in compute_mapping                                  *)
(***************************************************************************)

\* C30: for a document config.validate accepts, compute_mapping does not fail
\* because of a missing key: files and the dst of every element are there,
\* and a validated document without files gives an empty mapping.
C30_NoMissingKey ==
    Validate(map_before).ok =>
        /\ ~(MapFailed /\ map_err = "KeyError: 'files'")
        /\ "files" \notin DOMAIN map_before.v => ~MapFailed

\* what the code keeps of C30: dst is there in every element of files
C30_DstPresent ==
    Validate(map_before).ok =>
        \A j \in 1..Len(SpecsBefore) : "dst" \in DOMAIN SpecsBefore[j].v

\* a validated document without files on which compute_mapping raised
C30_WitnessKeyError ==
    /\ Validate(map_before).ok
    /\ "files" \notin DOMAIN map_before.v
    /\ MapFailed
    /\ map_err = "KeyError: 'files'"
    /\ mapping = <<>>

(***************************************************************************)
(* Termination of config.parse                                             *)
(***************************************************************************)

\* the root document is read again below itself: the includes form a cycle
\* through other documents
IncludeCycle ==
    \E m, n \in 1..Len(cfg_log) :
        /\ m < n
        /\ AbsPath(Cwd, cfg_log[m].path) = AbsPath(Cwd, cfg_log[n].path)
        /\ cfg_log[m].depth < cfg_log[n].depth

\* a document is read again by the parse that it called itself
SelfInclude ==
    \E n \in 1..(Len(cfg_log) - 1) :
        /\ AbsPath(Cwd, cfg_log[n].path) = AbsPath(Cwd, cfg_log[n + 1].path)
        /\ cfg_log[n + 1].depth = cfg_log[n].depth + 1

\* the rank of a call of parse on the stack: before its body has run, then by
\* the includes still to do, a call that waits for parse(i) below one that is
\* about to call it
FrameRank(frame) ==
    IF frame.phase = "enter" THEN <<1, 0>>
    ELSE IF frame.phase = "loop" THEN <<0, 2 * Len(frame.todo) + 1>>
    ELSE <<0, 2 * Len(frame.todo)>>

\* the rank of a state of the loader: main's position, then the ranks of the
\* calls on the stack from the outermost to the innermost
Rank ==
    << (IF cfg_pc = "running" THEN 2 ELSE IF cfg_pc = "done" THEN 1 ELSE 0) >>
    \o Flatten([d \in 1..(MaxCallDepth + 1) |->
                   IF d <= Len(cfg_stack) THEN FrameRank(cfg_stack[d]) ELSE <<0, 0>>])

\* s comes before t in the lexicographic order of sequences of one length
LexLess(s, t) ==
    \E i \in 1..Len(s) : s[i] < t[i] /\ \A j \in 1..(i - 1) : s[j] = t[j]

\* while parse runs, the call on top of the stack has a step to take
StepReady ==
    cfg_pc = "running" =>
        /\ cfg_stack # <<>>
        /\ Len(cfg_stack) <= MaxCallDepth + 1
        /\ TopFrame.phase \in {"enter", "loop", "wait"}
        /\ TopFrame.phase = "wait" => TopFrame.todo # <<>>

\* C28: config.parse(path) terminates, by returning a document or by
\* failing, for every set of configuration files, those whose include
\* references form a cycle included: a running parse always has a step to
\* take, and every step lowers the rank of the state, of which there are
\* finitely many below any given one.
C28_ParseTerminates == [](StepReady) /\ [][LexLess(Rank', Rank)]_vars

\* parse has failed on includes that form a cycle through the root document
C28_Witness ==
    /\ cfg_pc = "failed"
    /\ cfg_err = "maximum recursion depth exceeded"
    /\ IncludeCycle
    /\ ~SelfInclude

\* parse has failed on a document that includes itself
C28_WitnessSelf ==
    /\ cfg_pc = "failed"
    /\ cfg_err = "maximum recursion depth exceeded"
    /\ SelfInclude

(***************************************************************************)
(* jfuncs.t_path_basename, t_path_dirname, t_path_join                     *)
(***************************************************************************)

\* None, what a Python function returns when it ends without `return`
PyNone == [k |-> "none", v |-> <<>>]

\* an expression statement: the value is computed and dropped, and the
\* function body ends without a return statement
Dropped(value) == PyNone

\* t_path_basename(path): `try: os.path.basename(path)`
TPathBasename(path) == Dropped(YStr(BaseName(path)))

\* t_path_dirname(path): `try: os.path.dirname(path)`
TPathDirname(path) == Dropped(YStr(DirName(path)))

\* t_path_join(*paths), for two paths: `try: os.path.join(*paths)`
TPathJoin(a, b) == Dropped(YStr(PathJoin(a, b)))

JfChars == {"/", "a", "."}

\* the paths the functions are called with
JfPaths == StringsUpTo(JfChars, MaxLen)

InitJfuncs ==
    /\ jf_args \in {<<a>> : a \in JfPaths} \cup (JfPaths \X JfPaths)
    /\ jf_fn = ""
    /\ jf_result = PyNone
    /\ jf_pc = "ready"

CallPathBasename ==
    /\ jf_pc = "ready"
    /\ Len(jf_args) = 1
    /\ jf_fn' = "path_basename"
    /\ jf_result' = TPathBasename(jf_args[1])
    /\ jf_pc' = "returned"
    /\ UNCHANGED jf_args
    /\ UNCHANGED other_than_jf

CallPathDirname ==
    /\ jf_pc = "ready"
    /\ Len(jf_args) = 1
    /\ jf_fn' = "path_dirname"
    /\ jf_result' = TPathDirname(jf_args[1])
    /\ jf_pc' = "returned"
    /\ UNCHANGED jf_args
    /\ UNCHANGED other_than_jf

CallPathJoin ==
    /\ jf_pc = "ready"
    /\ Len(jf_args) = 2
    /\ jf_fn' = "path_join"
    /\ jf_result' = TPathJoin(jf_args[1], jf_args[2])
    /\ jf_pc' = "returned"
    /\ UNCHANGED jf_args
    /\ UNCHANGED other_than_jf

NextJfuncs == CallPathBasename \/ CallPathDirname \/ CallPathJoin

\* no call of a template function is modelled
JfuncsOff ==
    /\ jf_args = <<>>
    /\ jf_fn = ""
    /\ jf_result = PyNone
    /\ jf_pc = "off"

\* the result of the os.path function that jf_fn wraps
Wrapped ==
    IF jf_fn = "path_basename" THEN YStr(BaseName(jf_args[1]))
    ELSE IF jf_fn = "path_dirname" THEN YStr(DirName(jf_args[1]))
    ELSE YStr(PathJoin(jf_args[1], jf_args[2]))

\* C25: path_basename, path_dirname and path_join return the result of the
\* os.path function they wrap, for every input.
C25_PathWrappers == jf_pc = "returned" => jf_result = Wrapped

\* what the functions do return
C25_ReturnsNone == jf_pc = "returned" => jf_result = PyNone

\* path_basename('/a') has returned None, where os.path.basename gives 'a'
C25_WitnessNone ==
    /\ jf_pc = "returned"
    /\ jf_fn = "path_basename"
    /\ jf_args = << <<"/", "a">> >>
    /\ Wrapped = YStr(<<"a">>)
    /\ jf_result = PyNone

(***************************************************************************)
(* validate_environment                                                    *)
(***************************************************************************)

\* utils.get_hostname() of the machine the program runs on
Hostname == <<"h", "n">>
Fqdn == <<"h", "n", ".", "d">>

DotYaml == <<".", "y", "a", "m", "l">>
DotYml == <<".", "y", "m", "l">>
TmplName == <<"t", "m", "p", "l">>

\* s.endswith(suf)
EndsWith(s, suf) ==
    Len(s) >= Len(suf) /\ SubSeq(s, Len(s) - Len(suf) + 1, Len(s)) = suf

\* `s in t` for two strings
IsSubstr(s, t) ==
    \E i \in 0..(Len(t) - Len(s)) : SubSeq(t, i + 1, i + Len(s)) = s

\* os.path.isfile / os.path.isdir over a set of files and a set of directories
EnvIsFile(files, p) == AbsPath(Cwd, p) \in files
EnvIsDir(dirs, p) == AbsPath(Cwd, p) \in dirs

\* [f for f in os.listdir(d) if os.path.isfile(os.path.join(d, f))]
ListFiles(files, d) == {BaseName(f) : f \in {g \in files : DirName(g) = AbsPath(Cwd, d)}}

\* simple_matches
SimpleMatches ==
    << TmplName \o DotYaml, TmplName \o DotYml,
       Fqdn \o DotYaml, Fqdn \o DotYml,
       Hostname \o DotYaml, Hostname \o DotYml >>

\* next(x for x in simple_matches if x in files)
FirstSimple(names) ==
    SimpleMatches[CHOOSE i \in 1..Len(SimpleMatches) :
        /\ SimpleMatches[i] \in names
        /\ \A j \in 1..(i - 1) : SimpleMatches[j] \notin names]

\* (f.endswith('.yaml') or f.endswith('.yml')) and f.rsplit('.', 1)[0] in hostname
HostMatch(f) ==
    \/ EndsWith(f, DotYaml) /\ IsSubstr(SubSeq(f, 1, Len(f) - Len(DotYaml)), Hostname)
    \/ EndsWith(f, DotYml) /\ IsSubstr(SubSeq(f, 1, Len(f) - Len(DotYml)), Hostname)

\* the selection of the configuration file: the values args.template_conf
\* can have afterwards, or no value when the function bails.  os.listdir
\* lists a directory in arbitrary order, so `next(f for f in files ...)` can
\* be any of the matching names.
SelectConf(files, dirs, conf) ==
    IF EnvIsFile(files, conf) THEN {conf}
    ELSE IF ~EnvIsDir(dirs, conf) THEN {}
    ELSE IF ListFiles(files, conf) = {} THEN {}
    ELSE IF \E i \in 1..Len(SimpleMatches) : SimpleMatches[i] \in ListFiles(files, conf)
    THEN {PathJoin(conf, FirstSimple(ListFiles(files, conf)))}
    ELSE {PathJoin(conf, f) : f \in {g \in ListFiles(files, conf) : HostMatch(g)}}

\* the directories above an absolute path
RECURSIVE Ancestors(_)
Ancestors(p) ==
    IF DirName(p) = p \/ p = <<>> THEN {} ELSE {DirName(p)} \cup Ancestors(DirName(p))

\* the files and the directories below a directory
Below(paths, d) == {p \in paths : Under(p, AbsPath(Cwd, d))}

\* shutil.rmtree(d): d goes with everything below it
RmTree(fs, d) ==
    [files |-> fs.files \ Below(fs.files, d),
     dirs  |-> fs.dirs \ ({AbsPath(Cwd, d)} \cup Below(fs.dirs, d))]

\* os.makedirs(d) raises when d exists or when a file stands in its way
CanMakeDirs(fs, d) ==
    /\ AbsPath(Cwd, d) \notin fs.files \cup fs.dirs
    /\ Ancestors(AbsPath(Cwd, d)) \cap fs.files = {}

MakeDirs(fs, d) ==
    [files |-> fs.files,
     dirs  |-> fs.dirs \cup {AbsPath(Cwd, d)} \cup Ancestors(AbsPath(Cwd, d))]

\* bail(msg, EC) of validate_environment
EnvBailed(fs, args) == [ok |-> FALSE, ec |-> 2, fs |-> fs, args |-> args, ret |-> <<>>]

\* `if not args.base_dir: return os.path.dirname(args.template_conf)`
EnvReturned(fs, args) ==
    [ok |-> TRUE, ec |-> 0, fs |-> fs, args |-> args,
     ret |-> IF args.base_dir = <<>> THEN DirName(args.template_conf) ELSE args.base_dir]

\* the files validate_environment must leave alone: the configuration file
\* (or the directory it is selected from), the template root, the output root
Inputs(files, args) ==
    {f \in files :
        \/ f = AbsPath(Cwd, args.template_conf)
        \/ Under(f, AbsPath(Cwd, args.template_conf))
        \/ args.base_dir # <<>> /\ Under(f, AbsPath(Cwd, args.base_dir))
        \/ args.base_dir = <<>> /\ Under(f, DirName(AbsPath(Cwd, args.template_conf)))
        \/ Under(f, AbsPath(Cwd, args.output))}

\* lines 254-264: the working directory is deleted and made again.  rmtree
\* and makedirs can also fail for reasons outside the model (permissions);
\* a failing rmtree may have deleted any part of the files by then.
Recreate(fs, args, denied) ==
    IF EnvIsFile(fs.files, args.working_directory) THEN {EnvBailed(fs, args)}
    ELSE IF EnvIsDir(fs.dirs, args.working_directory) /\ denied
    THEN {EnvBailed([files |-> fs.files \ gone, dirs |-> fs.dirs], args) :
            gone \in SUBSET Below(fs.files, args.working_directory)}
    ELSE IF EnvIsDir(fs.dirs, args.working_directory)
    THEN (IF CanMakeDirs(RmTree(fs, args.working_directory), args.working_directory)
          THEN {EnvReturned(MakeDirs(RmTree(fs, args.working_directory),
                                     args.working_directory), args)}
          ELSE {EnvBailed(RmTree(fs, args.working_directory), args)})
    ELSE IF CanMakeDirs(fs, args.working_directory) /\ ~denied
    THEN {EnvReturned(MakeDirs(fs, args.working_directory), args)}
    ELSE {EnvBailed(fs, args)}

\* validate_environment(args): the outcomes the call can have
ValidateEnvironment(fs, args, denied) ==
    IF ~EnvIsFile(fs.files, args.rsync_executable) THEN {EnvBailed(fs, args)}
    ELSE IF args.base_dir # <<>> /\ ~EnvIsDir(fs.dirs, args.base_dir) THEN {EnvBailed(fs, args)}
    ELSE IF SelectConf(fs.files, fs.dirs, args.template_conf) = {} THEN {EnvBailed(fs, args)}
    ELSE UNION {Recreate(fs, [args EXCEPT !.template_conf = conf], denied) :
                    conf \in SelectConf(fs.files, fs.dirs, args.template_conf)}

(***************************************************************************)
(* The environment's specification: a command line is drawn over one file  *)
(* system, then validate_environment runs                                  *)
(***************************************************************************)

P1(a) == <<"/", a>>
P2(a, b) == <<"/", a, "/">> \o b

EnvFiles ==
    { P1("r"),
      P2("c", TmplName \o DotYaml), P2("c", <<"x">>),
      <<"/", "c", "/", "t", "/", "a">>,
      P2("d", <<"h">> \o DotYml), P2("d", <<"n">> \o DotYaml), P2("d", <<"x">>),
      P2("g", <<"x">>),
      P2("o", <<"a">>),
      P2("w", <<"a">>), P2("w", <<"b">>) }

EnvDirs ==
    { <<"/">>, P1("c"), P2("c", <<"t">>), P1("d"), P1("e"), P1("g"), P1("o"), P1("w") }

RsyncPaths == {P1("r"), P1("n")}
BaseDirs == {<<>>, <<"t">>, P1("n")}
ConfPaths == {P2("c", TmplName \o DotYaml), P1("c"), P1("d"), P1("e"), P1("g"), P1("n")}
WorkingDirs == {P1("w"), P1("v"), P1("r"), P2("r", <<"x">>), P1("c"), <<"t">>, P1("o"), P1("d")}
OutputDirs == {P1("o"), P1("p")}

InitEnv ==
    /\ env_fs = [files |-> EnvFiles, dirs |-> EnvDirs]
    /\ env_args \in [rsync_executable : RsyncPaths, base_dir : BaseDirs,
                     template_conf : ConfPaths, working_directory : WorkingDirs,
                     output : OutputDirs]
    /\ env_denied \in BOOLEAN
    /\ env_before = [fs |-> [files |-> EnvFiles, dirs |-> EnvDirs], args |-> env_args]
    /\ env_ret = <<>>
    /\ env_ec = 0
    /\ env_pc = "ready"

\* validate_environment returns the template directory
EnvReturn ==
    /\ env_pc = "ready"
    /\ \E o \in ValidateEnvironment(env_fs, env_args, env_denied) :
        /\ o.ok
        /\ env_fs' = o.fs
        /\ env_args' = o.args
        /\ env_ret' = o.ret
        /\ env_ec' = o.ec
    /\ env_pc' = "returned"
    /\ UNCHANGED <<env_before, env_denied>>
    /\ UNCHANGED other_than_env

\* validate_environment ends the program through bail
EnvBail ==
    /\ env_pc = "ready"
    /\ \E o \in ValidateEnvironment(env_fs, env_args, env_denied) :
        /\ ~o.ok
        /\ env_fs' = o.fs
        /\ env_args' = o.args
        /\ env_ret' = o.ret
        /\ env_ec' = o.ec
    /\ env_pc' = "exited"
    /\ UNCHANGED <<env_before, env_denied>>
    /\ UNCHANGED other_than_env

NextEnv == EnvReturn \/ EnvBail

\* no run of validate_environment is modelled
EnvOff ==
    /\ env_fs = [files |-> {}, dirs |-> {}]
    /\ env_args = <<>>
    /\ env_denied = FALSE
    /\ env_before = <<>>
    /\ env_ret = <<>>
    /\ env_ec = 0
    /\ env_pc = "off"

(***************************************************************************)
(* Properties of validate_environment                                      *)
(***************************************************************************)

EnvDone == env_pc \in {"returned", "exited"}

\* the files the call has deleted
Deleted == env_before.fs.files \ env_fs.files

\* C29: validate_environment never deletes the configuration file, files of
\* the template root or files of the output root, whatever the working,
\* template and output directories are.
C29_InputsKept ==
    EnvDone => Deleted \cap Inputs(env_before.fs.files, env_before.args) = {}

\* what does hold: only files below the working directory are deleted
C29_OnlyBelowWorking ==
    EnvDone => Deleted \subseteq Below(env_before.fs.files, env_before.args.working_directory)

\* the working directory is the template root: the call has returned and the
\* template /c/t/a is gone
C29_WitnessTemplateGone ==
    /\ env_pc = "returned"
    /\ env_before.args.working_directory = <<"t">>
    /\ env_before.args.base_dir = <<"t">>
    /\ env_ret = <<"t">>
    /\ <<"/", "c", "/", "t", "/", "a">> \in Deleted

\* the working directory holds the configuration file, which is gone when
\* the call returns
C29_WitnessConfGone ==
    /\ env_pc = "returned"
    /\ env_before.args.working_directory = P1("c")
    /\ env_args.template_conf = P2("c", TmplName \o DotYaml)
    /\ env_args.template_conf \in Deleted

(***************************************************************************)
(* main, translate_stdin and write_output                                  *)
(***************************************************************************)

\* the classes of failure of a run, in the order main reaches them
FailureClasses ==
    << "environment", "parse", "validate", "engine", "library", "mapping",
       "render", "sync", "metadata", "stdin" >>

\* the EC each function passes to bail or to sys.exit
ExitCode_SyncForMetadata(class) ==
    CASE class = "environment" -> 2
      [] class = "parse"       -> 3
      [] class = "validate"    -> 4
      [] class = "engine"      -> 5
      [] class = "library"     -> 6
      [] class = "mapping"     -> 7
      [] class = "render"      -> 8
      [] class = "sync"        -> 9
      [] class = "metadata"    -> 9
      [] class = "stdin"       -> 11

ExitCode(class) ==
    CASE class = "environment" -> 2
      [] class = "parse"       -> 3
      [] class = "validate"    -> 4
      [] class = "engine"      -> 5
      [] class = "library"     -> 6
      [] class = "mapping"     -> 7
      [] class = "render"      -> 8
      [] class = "sync"        -> 9
      [] class = "metadata"    -> 10
      [] class = "stdin"       -> 11

\* rsync_args, as the list of its words
RsyncArgs_NeverDry(args) ==
    <<"-a", "-h", "--progress">>
        \o (IF args.delete THEN <<"--delete">> ELSE <<>>)

RsyncArgs(args) ==
    <<"-a", "-h", "--progress">>
        \o (IF args.delete THEN <<"--delete">> ELSE <<>>)
        \o (IF args.dry_run THEN <<"--dry-run">> ELSE <<>>)

\* `if rsync_ec:`, `if chmod_ec:`, `if chown_ec:`
NonZero_Ignored(ec) == FALSE

NonZero(ec) == ec # 0

\* `if args.chmod and chmod and not args.dry_run`, and the same test for
\* chown and for symlinks
Applies_InDryRun(flag, value, dry_run) == flag /\ value # <<>>

Applies(flag, value, dry_run) == flag /\ value # <<>> /\ ~dry_run

\* what stands at a path of the output tree
Absent == [kind |-> "absent", target |-> <<>>]
SymlinkTo(target) == [kind |-> "symlink", target |-> target]
RegularFile == [kind |-> "file", target |-> <<>>]
Directory == [kind |-> "dir", target |-> <<>>]

\* os.path.islink, os.path.exists, os.path.isdir at a path of the output
\* tree; the parent "/" of a path exists, and the links of the model's
\* trees point at existing files
IsLink(nodes, p) == p \in DOMAIN nodes /\ nodes[p].kind = "symlink"
NodeExists(nodes, p) == p \in DOMAIN nodes /\ nodes[p].kind # "absent"
NodeIsDir(nodes, p) == p = <<"/">> \/ (p \in DOMAIN nodes /\ nodes[p].kind = "dir")

\* the branch lines 349-356 take at the link location
LinkBranch_ReplacesAll(nodes, symlink) ==
    IF NodeExists(nodes, symlink) THEN "unlink" ELSE "create"

LinkBranch(nodes, symlink) ==
    IF IsLink(nodes, symlink) THEN "unlink"
    ELSE IF NodeExists(nodes, symlink) THEN "refuse"
    ELSE "create"

\* an effect of the run outside of the process
Effect(op, path, arg) == [op |-> op, path |-> path, arg |-> arg]

\* the todo list of translate_templates: for each spec of conf['files'], the
\* mappings whose dst_key is the spec's dst
RECURSIVE Todo(_, _)
Todo(specs, maps) ==
    IF specs = <<>> THEN <<>>
    ELSE SpecMaps(maps, Head(specs)) \o Todo(Tail(specs), maps)

\* the symlink block of write_output for one mapping, lines 348-368: the
\* state it leaves.  `fails` is the system call that raises, if any.
LinkOutcome(nodes, log, m, fails) ==
    LET branch == LinkBranch(nodes, m.full_lnk)
        parent == DirName(m.full_lnk)
        unlinked == IF branch = "unlink" /\ fails # "unlink"
                    THEN [nodes EXCEPT ![m.full_lnk] = Absent] ELSE nodes
        log1 == IF branch = "unlink" /\ fails # "unlink"
                THEN Append(log, Effect("unlink", m.full_lnk, <<>>)) ELSE log
        needdir == parent # <<>> /\ ~NodeIsDir(unlinked, parent)
        candir == ~NodeExists(unlinked, parent) /\ fails # "makedirs"
        withdir == IF needdir /\ candir
                   THEN [unlinked EXCEPT ![parent] = Directory] ELSE unlinked
        log2 == IF needdir /\ candir
                THEN Append(log1, Effect("makedirs", parent, <<>>)) ELSE log1
        canlink == ~NodeExists(withdir, m.full_lnk) /\ fails # "symlink"
    IN  IF branch = "refuse" \/ (branch = "unlink" /\ fails = "unlink")
        THEN [ok |-> FALSE, nodes |-> nodes, log |-> log]
        ELSE IF needdir /\ ~candir
        THEN [ok |-> FALSE, nodes |-> unlinked, log |-> log1]
        ELSE IF ~canlink
        THEN [ok |-> FALSE, nodes |-> withdir, log |-> log2]
        ELSE [ok |-> TRUE,
              nodes |-> [withdir EXCEPT ![m.full_lnk] = SymlinkTo(m.full_dst)],
              log |-> Append(log2, Effect("symlink", m.full_lnk, m.full_dst))]

(***************************************************************************)
(* The run's specification: a command line, the mapping compute_mapping    *)
(* would return and an output tree are drawn, then main runs; every call   *)
(* that can fail either succeeds or fails                                  *)
(***************************************************************************)

\* the exit codes a child process ends with
ProcessCodes == {0, 1}
RsyncCodes == {0, 23}

LinkL == <<"/", "l">>
DirQ == <<"/", "q">>
LinkK == <<"/", "q", "/", "k">>
OldTarget == <<"/", "o", "/", "z">>

\* a mapping as write_output and translate_templates read it
RunMap(dst_key, chmod, chown, full_lnk) ==
    [dst_key |-> dst_key, full_dst |-> PathJoin(OutputDir, dst_key),
     chmod |-> chmod, chown |-> chown, full_lnk |-> full_lnk]

Mode644 == <<"6", "4", "4">>
Owner == <<"u">>

\* the spec {dst: key} of conf['files']
DstSpec(key) == [k |-> "dict", v |-> [dst |-> YStr(key)]]

\* conf['files'] and the mapping computed from it
RunInputs ==
    { [specs |-> <<>>, mapping |-> <<>>],
      [specs |-> <<DstSpec(<<"a">>)>>,
       mapping |-> <<RunMap(<<"a">>, Mode644, Owner, LinkL)>>],
      [specs |-> <<DstSpec(<<"a">>)>>,
       mapping |-> <<RunMap(<<"a">>, <<>>, <<>>, LinkK)>>],
      [specs |-> <<DstSpec(<<"a">>), DstSpec(<<"b">>)>>,
       mapping |-> <<RunMap(<<"a">>, Mode644, <<>>, <<>>),
                     RunMap(<<"b">>, <<>>, Owner, LinkL)>>],
      [specs |-> <<DstSpec(<<"a">>), DstSpec(<<"b">>)>>,
       mapping |-> <<RunMap(<<"a">>, <<>>, <<>>, LinkL),
                     RunMap(<<"b">>, Mode644, Owner, LinkL)>>] }

\* the output tree at the link locations
Nodes(l, q, k) == (LinkL :> l) @@ (DirQ :> q) @@ (LinkK :> k)

RunNodes ==
    { Nodes(Absent, Absent, Absent),
      Nodes(SymlinkTo(OldTarget), Absent, Absent),
      Nodes(RegularFile, RegularFile, Absent),
      Nodes(Directory, Directory, SymlinkTo(OldTarget)),
      Nodes(Absent, Directory, RegularFile) }

RunArgs ==
    [stdin : BOOLEAN, dry_run : BOOLEAN, delete : BOOLEAN,
     chmod : BOOLEAN, chown : BOOLEAN, symlinks : BOOLEAN]

\* bail(msg, ec) and sys.exit(EC): the run ends with the status of the class
Bail(class) ==
    /\ run_pc' = "exited"
    /\ run_ec' = ExitCode(class)
    /\ run_failed' = class

\* the run goes on with the next step
Goes(pc) ==
    /\ run_pc' = pc
    /\ UNCHANGED <<run_ec, run_failed>>

\* a stage of main that only succeeds or fails
Stage(pc, class, next) ==
    /\ run_pc = pc
    /\ \/ Goes(next) /\ run_done' = Append(run_done, class)
       \/ Bail(class) /\ UNCHANGED run_done
    /\ UNCHANGED <<run_before, run_args, run_specs, run_mapping, run_isdir, run_nodes, run_i,
                   run_todo, run_log>>
    /\ UNCHANGED other_than_run

\* template_dir = validate_environment(args)
MainValidateEnvironment == Stage("environment", "environment", "parse")

\* conf = config.parse(args.template_conf)
MainParse == Stage("parse", "parse", "validate")

\* config.validate(conf)
MainValidate == Stage("validate", "validate", "engine")

\* jinja_engine = jengine.setup(args, template_dir)
MainSetup == Stage("engine", "engine", "library")

\* for l in config.get_lib_paths(conf): jengine.import_lib(jinja_engine, l)
MainImportLib ==
    Stage("library", "library", IF run_args.stdin THEN "stdin" ELSE "mapping")

\* translate_stdin(jinja_engine, conf)
TranslateStdin == Stage("stdin", "stdin", "exit")

\* mapping = config.compute_mapping(conf, args.output, args.working_directory)
MainComputeMapping ==
    /\ run_pc = "mapping"
    /\ \/ /\ Goes("translate")
          /\ run_done' = Append(run_done, "mapping")
          /\ run_todo' = Todo(run_specs, run_mapping)
          /\ run_i' = 1
       \/ Bail("mapping") /\ UNCHANGED <<run_done, run_todo, run_i>>
    /\ UNCHANGED <<run_before, run_args, run_specs, run_mapping, run_isdir, run_nodes, run_log>>
    /\ UNCHANGED other_than_run

\* translate_templates: one spec_map is rendered or copied into the working
\* directory, or the run ends
MainTranslate ==
    /\ run_pc = "translate"
    /\ run_i <= Len(run_todo)
    /\ \/ /\ Goes("translate")
          /\ run_log' = Append(run_log, Effect("work", WorkingDir, run_todo[run_i]))
          /\ run_i' = run_i + 1
       \/ Bail("render") /\ UNCHANGED <<run_log, run_i>>
    /\ UNCHANGED <<run_before, run_args, run_specs, run_mapping, run_isdir, run_nodes, run_todo, run_done>>
    /\ UNCHANGED other_than_run

\* translate_templates returns, write_output begins
MainTranslated ==
    /\ run_pc = "translate"
    /\ run_i > Len(run_todo)
    /\ Goes("makedirs")
    /\ run_done' = Append(run_done, "render")
    /\ UNCHANGED <<run_before, run_args, run_specs, run_mapping, run_isdir, run_nodes, run_i,
                   run_todo, run_log>>
    /\ UNCHANGED other_than_run

\* write_output, lines 280-287: the output directory is made when missing
WriteMakedirs ==
    /\ run_pc = "makedirs"
    /\ IF ~run_isdir /\ ~run_args.dry_run
       THEN \/ /\ Goes("rsync")
               /\ run_isdir' = TRUE
               /\ run_log' = Append(run_log, Effect("makedirs", OutputDir, <<>>))
            \/ Bail("sync") /\ UNCHANGED <<run_isdir, run_log>>
       ELSE Goes("rsync") /\ UNCHANGED <<run_isdir, run_log>>
    /\ UNCHANGED <<run_before, run_args, run_specs, run_mapping, run_nodes, run_i, run_todo, run_done>>
    /\ UNCHANGED other_than_run

\* write_output, lines 288-313: rsync runs and returns rsync_ec, or cannot
\* be started
WriteRsync ==
    /\ run_pc = "rsync"
    /\ \/ \E rsync_ec \in RsyncCodes :
            /\ run_log' = Append(run_log, Effect("rsync", OutputDir,
                                    [args |-> RsyncArgs(run_args), ec |-> rsync_ec]))
            /\ IF NonZero(rsync_ec)
               THEN Bail("sync") /\ UNCHANGED <<run_done, run_i>>
               ELSE /\ Goes("chmod")
                    /\ run_done' = Append(run_done, "sync")
                    /\ run_i' = 1
       \/ Bail("sync") /\ UNCHANGED <<run_log, run_done, run_i>>
    /\ UNCHANGED <<run_before, run_args, run_specs, run_mapping, run_isdir, run_nodes, run_todo>>
    /\ UNCHANGED other_than_run

\* write_output, lines 322-334, for mapping run_i
WriteChmod ==
    /\ run_pc = "chmod"
    /\ run_i <= Len(run_mapping)
    /\ IF Applies(run_args.chmod, run_mapping[run_i].chmod, run_args.dry_run)
       THEN \/ \E chmod_ec \in ProcessCodes :
                 /\ run_log' = Append(run_log, Effect("chmod", run_mapping[run_i].full_dst,
                                    [args |-> run_mapping[run_i].chmod, ec |-> chmod_ec]))
                 /\ IF NonZero(chmod_ec) THEN Bail("metadata") ELSE Goes("chown")
            \/ Bail("metadata") /\ UNCHANGED run_log
       ELSE Goes("chown") /\ UNCHANGED run_log
    /\ UNCHANGED <<run_before, run_args, run_specs, run_mapping, run_isdir, run_nodes, run_i,
                   run_todo, run_done>>
    /\ UNCHANGED other_than_run

\* write_output, lines 335-347, for mapping run_i
WriteChown ==
    /\ run_pc = "chown"
    /\ IF Applies(run_args.chown, run_mapping[run_i].chown, run_args.dry_run)
       THEN \/ \E chown_ec \in ProcessCodes :
                 /\ run_log' = Append(run_log, Effect("chown", run_mapping[run_i].full_dst,
                                    [args |-> run_mapping[run_i].chown, ec |-> chown_ec]))
                 /\ IF NonZero(chown_ec) THEN Bail("metadata") ELSE Goes("symlink")
            \/ Bail("metadata") /\ UNCHANGED run_log
       ELSE Goes("symlink") /\ UNCHANGED run_log
    /\ UNCHANGED <<run_before, run_args, run_specs, run_mapping, run_isdir, run_nodes, run_i,
                   run_todo, run_done>>
    /\ UNCHANGED other_than_run

\* write_output, lines 348-368, for mapping run_i
WriteSymlink ==
    /\ run_pc = "symlink"
    /\ IF Applies(run_args.symlinks, run_mapping[run_i].full_lnk, run_args.dry_run)
       THEN \E fails \in {"none", "unlink", "makedirs", "symlink"} :
              LET o == LinkOutcome(run_nodes, run_log, run_mapping[run_i], fails)
              IN  /\ run_nodes' = o.nodes
                  /\ run_log' = o.log
                  /\ IF o.ok THEN Goes("chmod") /\ run_i' = run_i + 1
                     ELSE Bail("metadata") /\ UNCHANGED run_i
       ELSE Goes("chmod") /\ run_i' = run_i + 1 /\ UNCHANGED <<run_nodes, run_log>>
    /\ UNCHANGED <<run_before, run_args, run_specs, run_mapping, run_isdir, run_todo, run_done>>
    /\ UNCHANGED other_than_run

\* write_output returns
WriteReturn ==
    /\ run_pc = "chmod"
    /\ run_i > Len(run_mapping)
    /\ Goes("exit")
    /\ run_done' = Append(run_done, "metadata")
    /\ UNCHANGED <<run_before, run_args, run_specs, run_mapping, run_isdir, run_nodes, run_i,
                   run_todo, run_log>>
    /\ UNCHANGED other_than_run

\* sys.exit(0) at the end of main
MainExit ==
    /\ run_pc = "exit"
    /\ run_pc' = "exited"
    /\ run_ec' = 0
    /\ UNCHANGED <<run_before, run_args, run_specs, run_mapping, run_isdir, run_nodes, run_i,
                   run_todo, run_log, run_done, run_failed>>
    /\ UNCHANGED other_than_run

NextRun ==
    \/ MainValidateEnvironment
    \/ MainParse
    \/ MainValidate
    \/ MainSetup
    \/ MainImportLib
    \/ TranslateStdin
    \/ MainComputeMapping
    \/ MainTranslate
    \/ MainTranslated
    \/ WriteMakedirs
    \/ WriteRsync
    \/ WriteChmod
    \/ WriteChown
    \/ WriteSymlink
    \/ WriteReturn
    \/ MainExit

InitRun ==
    /\ run_args \in RunArgs
    /\ \E input \in RunInputs :
        /\ run_specs = input.specs
        /\ run_mapping = input.mapping
    /\ run_isdir \in BOOLEAN
    /\ run_nodes \in RunNodes
    /\ run_before = [isdir |-> run_isdir, nodes |-> run_nodes]
    /\ run_i = 0
    /\ run_todo = <<>>
    /\ run_log = <<>>
    /\ run_done = <<>>
    /\ run_ec = 0
    /\ run_failed = ""
    /\ run_pc = "environment"

\* no run of main is modelled
RunOff ==
    /\ run_args = <<>>
    /\ run_specs = <<>>
    /\ run_mapping = <<>>
    /\ run_isdir = FALSE
    /\ run_nodes = <<>>
    /\ run_before = <<>>
    /\ run_i = 0
    /\ run_todo = <<>>
    /\ run_log = <<>>
    /\ run_done = <<>>
    /\ run_ec = 0
    /\ run_failed = ""
    /\ run_pc = "off"

(***************************************************************************)
(* Properties of a run                                                     *)
(***************************************************************************)

Exited == run_pc = "exited"

Completed(class) == \E n \in 1..Len(run_done) : run_done[n] = class

\* the positions of the log that hold an effect of one of these kinds
LogOf(ops) == {n \in 1..Len(run_log) : run_log[n].op \in ops}

\* the effects write_output has per mapping
MetadataOps == {"chmod", "chown", "unlink", "symlink"}

\* the mirror step was reached with everything before it done: each stage
\* has completed and every mapping was rendered or copied
MirrorStaged ==
    \A n \in LogOf({"rsync"}) :
        /\ \A class \in {"environment", "parse", "validate", "engine", "library",
                         "mapping", "render"} : Completed(class)
        /\ \A m \in 1..Len(run_mapping) :
                \E k \in 1..(n - 1) : run_log[k] = Effect("work", WorkingDir, m)

\* metadata and links are applied after a mirror step that returned 0
MetadataStaged ==
    \A n \in LogOf(MetadataOps) :
        \E k \in 1..(n - 1) : run_log[k].op = "rsync" /\ run_log[k].arg.ec = 0

\* a failure ends the run at once, and nothing happens after the end
FailFast ==
    /\ run_failed' # "" => run_pc' = "exited"
    /\ run_pc = "exited" => UNCHANGED run_vars

\* C21: the mirror step runs only after loading, validation, mapping and the
\* rendering or copying of every mapping have succeeded; chmod, chown and
\* symlinks are applied only after the mirror returned 0; once a stage fails
\* no later stage and no output effect occurs.
C21_StagedFailFast ==
    /\ [](MirrorStaged /\ MetadataStaged)
    /\ [][FailFast]_vars

\* the mirror has failed after every file was rendered: the run has ended
\* with no metadata applied although the first mapping asks for a mode
C21_Witness ==
    /\ Exited
    /\ run_failed = "sync"
    /\ Len(run_mapping) = 2
    /\ run_mapping[1].chmod # <<>> /\ run_args.chmod /\ ~run_args.dry_run
    /\ LogOf({"work"}) = {1, 2}
    /\ LogOf({"rsync"}) # {}
    /\ LogOf(MetadataOps) = {}

\* a run that went through every stage and applied metadata and a link
C21_WitnessComplete ==
    /\ Exited
    /\ run_ec = 0
    /\ LogOf({"chmod"}) # {} /\ LogOf({"chown"}) # {} /\ LogOf({"symlink"}) # {}

\* C22: in dry-run mode write_output does not create the output directory,
\* runs the mirror tool only with --dry-run, and applies no chmod, chown or
\* symlink and removes no symlink.
C22_DryRunWritesNothing ==
    run_args.dry_run =>
        /\ LogOf(MetadataOps \cup {"makedirs"}) = {}
        /\ \A n \in LogOf({"rsync"}) :
                \E w \in 1..Len(run_log[n].arg.args) : run_log[n].arg.args[w] = "--dry-run"
        /\ run_isdir = run_before.isdir
        /\ run_nodes = run_before.nodes

\* a dry run has ended with status 0: the output directory was missing, the
\* mapping asks for a mode, an owner and a link over an existing symlink,
\* and the three are switched on
C22_Witness ==
    /\ Exited
    /\ run_ec = 0
    /\ run_args.dry_run /\ run_args.chmod /\ run_args.chown /\ run_args.symlinks
    /\ ~run_before.isdir
    /\ Len(run_mapping) = 1
    /\ run_mapping[1].chmod # <<>> /\ run_mapping[1].chown # <<>>
    /\ IsLink(run_before.nodes, run_mapping[1].full_lnk)
    /\ LogOf({"rsync"}) # {}

\* write_output is at the link of mapping run_i, which is to be made
AtLink ==
    /\ run_pc = "symlink"
    /\ run_args.symlinks /\ ~run_args.dry_run
    /\ run_mapping[run_i].full_lnk # <<>>

\* an existing symlink is removed, then the link to full_dst is made
LinkReplaced ==
    AtLink /\ IsLink(run_nodes, run_mapping[run_i].full_lnk) /\ run_failed' = "" =>
        /\ run_log' = run_log \o
                << Effect("unlink", run_mapping[run_i].full_lnk, <<>>),
                   Effect("symlink", run_mapping[run_i].full_lnk, run_mapping[run_i].full_dst) >>
        /\ run_nodes' = [run_nodes EXCEPT ![run_mapping[run_i].full_lnk] =
                                            SymlinkTo(run_mapping[run_i].full_dst)]

\* an existing file or directory ends the run and stays as it is
LinkRefused ==
    /\ AtLink
    /\ ~IsLink(run_nodes, run_mapping[run_i].full_lnk)
    /\ NodeExists(run_nodes, run_mapping[run_i].full_lnk)
    => /\ run_pc' = "exited"
       /\ run_failed' = "metadata"
       /\ run_ec' = 10
       /\ run_nodes' = run_nodes
       /\ run_log' = run_log

\* C23: an existing symlink at a mapping's link path is removed before the
\* new symlink to full_dst is created; an existing file or directory there
\* makes the run fail with the metadata status and is neither removed nor
\* replaced.
C23_LinkLocation == [][LinkReplaced /\ LinkRefused]_vars

\* the link /l to /o/z was replaced by a link to the mapping's full_dst
C23_Witness ==
    /\ run_before.nodes[LinkL] = SymlinkTo(OldTarget)
    /\ \E n \in LogOf({"unlink"}) :
        /\ run_log[n].path = LinkL
        /\ n < Len(run_log)
        /\ run_log[n + 1] = Effect("symlink", LinkL, run_nodes[LinkL].target)
    /\ run_nodes[LinkL].kind = "symlink"
    /\ run_nodes[LinkL].target # OldTarget

\* the run has ended at a link path where a regular file stands
C23_WitnessRefused ==
    /\ Exited
    /\ run_failed = "metadata"
    /\ run_mapping[run_i].full_lnk = LinkK
    /\ run_before.nodes[LinkK] = RegularFile
    /\ run_nodes[LinkK] = RegularFile
    /\ LogOf({"unlink", "symlink"}) = {}

\* the stages of a run that ends without failure
StagesOf(stdin) ==
    IF stdin
    THEN <<"environment", "parse", "validate", "engine", "library", "stdin">>
    ELSE <<"environment", "parse", "validate", "engine", "library", "mapping",
           "render", "sync", "metadata">>

\* the status of a failed run is not 0 and is the status of no other class
OwnStatus ==
    run_failed # "" =>
        /\ run_ec # 0
        /\ \A n \in 1..Len(FailureClasses) :
                FailureClasses[n] # run_failed => ExitCode(FailureClasses[n]) # run_ec

\* status 0 comes after every stage of the mode has completed
ZeroOnSuccess ==
    run_ec = 0 => run_failed = "" /\ run_done = StagesOf(run_args.stdin)

\* C24: each failure class ends the run with its own non-zero exit status,
\* pairwise distinct; exit status 0 is produced only when every stage of the
\* selected mode completed without failure.
C24_ExitStatus == Exited => OwnStatus /\ ZeroOnSuccess

\* a run has failed while metadata was applied
C24_Witness ==
    /\ Exited
    /\ run_failed = "metadata"
    /\ run_ec = 10
    /\ Completed("sync")

\* a batch run over two mappings has ended with status 0
C24_WitnessZero ==
    /\ Exited
    /\ run_ec = 0
    /\ ~run_args.stdin
    /\ Len(run_mapping) = 2
    /\ Completed("metadata")

(***************************************************************************)
(* Specifications                                                          *)
(***************************************************************************)

Init == ExpandOff /\ MergeOff /\ InitConfig /\ ValidateOff /\ MappingOff /\ JfuncsOff /\ EnvOff /\ RunOff
Next == NextConfig
Spec == Init /\ [][Next]_vars

InitOfExpand == InitExpand /\ MergeOff /\ ConfigOff /\ ValidateOff /\ MappingOff /\ JfuncsOff /\ EnvOff /\ RunOff

SpecExpand == InitOfExpand /\ [][NextExpand]_vars

InitOfMerge == ExpandOff /\ InitMerge /\ ConfigOff /\ ValidateOff /\ MappingOff /\ JfuncsOff /\ EnvOff /\ RunOff

SpecMerge == InitOfMerge /\ [][NextMerge]_vars

InitOfValidate == ExpandOff /\ MergeOff /\ ConfigOff /\ InitValidate /\ MappingOff /\ JfuncsOff /\ EnvOff /\ RunOff

SpecValidate == InitOfValidate /\ [][NextValidate]_vars

InitOfMapping ==
    ExpandOff /\ MergeOff /\ ConfigOff /\ ValidateOff /\ InitMapping /\ JfuncsOff /\ EnvOff /\ RunOff
SpecMapping == InitOfMapping /\ [][NextMapping]_vars

InitOfJfuncs ==
    ExpandOff /\ MergeOff /\ ConfigOff /\ ValidateOff /\ MappingOff /\ InitJfuncs /\ EnvOff /\ RunOff
SpecJfuncs == InitOfJfuncs /\ [][NextJfuncs]_vars

InitOfEnv ==
    ExpandOff /\ MergeOff /\ ConfigOff /\ ValidateOff /\ MappingOff /\ JfuncsOff /\ InitEnv /\ RunOff
SpecEnv == InitOfEnv /\ [][NextEnv]_vars

InitOfRun ==
    ExpandOff /\ MergeOff /\ ConfigOff /\ ValidateOff /\ MappingOff /\ JfuncsOff /\ EnvOff /\ InitRun
SpecRun == InitOfRun /\ [][NextRun]_vars

====
